---- MODULE Spec2Model ----
(***************************************************************************)
(* Model of the mk key-value store (daicang/mk): the transaction layer of  *)
(* pkg/tx.go, the b+tree node of pkg/tree/node.go, the freelist and the   *)
(* DB page allocator of pkg/db.go.                                         *)
(*                                                                         *)
(* Keys are byte strings of length 1, written as the integers 1..MaxKey;  *)
(* the nil/empty key is 0 and sorts before every other key.  Values are    *)
(* byte strings written as the integers 1..MaxVal; value 1 is one byte     *)
(* long, every other value up to MaxVal is BigValueLen bytes long.         *)
(* Indexes of slices are 0-based in the code and 1-based in the sequences  *)
(* of this module: operators that return an index return the code's        *)
(* 0-based index.                                                          *)
(***************************************************************************)
EXTENDS Integers, Sequences, FiniteSets, TLC

\* ---- bounds of the model -------------------------------------------------
MaxKey == 5
MaxVal == 2
BigValueLen == 2000
MaxReaders == 1
MaxFuel == 6
MaxWriteFail == 1
MaxId == 7
MaxRun == 3
MaxOverflow == 1
MaxPending == 3
MaxExtra == 3
MaxMergeKey == 8
KeyRadix == 10
BigKeyLen == 1000
SizedBase == 10000

\* ---- program constants ---------------------------------------------------
PageSize == 4096
HeaderSize == 32
PairInfoSize == 16
IdSize == 4
minKeys == 2
maxKeys == 4
splitThreshold == 2048
underfillThreshold == 1024
\* sizes of the memory map are counted in KiB (TLC's integers are 32 bits
\* wide): MinMapBytes = 1 << 17, MmapStep = 1 << 30, MaxMapBytes = 1 << 34
MinMapKiB == 128
MmapStepKiB == 1048576
MaxMapKiB == 16777216
FlagMeta == 1
FlagFreelist == 2
FlagInternal == 4
FlagLeaf == 8
Magic == 538976289

KeySet == 1..MaxKey
ValueSet == 1..MaxVal
NoValue == 0
NilKey == 0

\* The keys from KeyRadix up stand for the byte strings used where the
\* length of a key matters: key KeyRadix * i + 1 is BigKeyLen bytes long,
\* key KeyRadix * i one byte, and they sort by i.  The values from SizedBase
\* up stand for the byte strings of every length: value SizedBase + l is l
\* bytes long.
SizedKey(i, long) == KeyRadix * i + (IF long THEN 1 ELSE 0)
SizedValue(l) == SizedBase + l

KeyLen(k) ==
  IF k = NilKey THEN 0
  ELSE IF k >= KeyRadix /\ k % KeyRadix = 1 THEN BigKeyLen
  ELSE 1

ValLen(v) ==
  IF v = NoValue THEN 0
  ELSE IF v = 1 THEN 1
  ELSE IF v >= SizedBase THEN v - SizedBase
  ELSE BigValueLen

RECURSIVE SumLen(_, _, _)
SumLen(s, i, isKey) ==
  IF i > Len(s) THEN 0
  ELSE (IF isKey THEN KeyLen(s[i]) ELSE ValLen(s[i])) + SumLen(s, i + 1, isKey)

Prefix(s, n) == SubSeq(s, 1, n)
Suffix(s, n) == SubSeq(s, n + 1, Len(s))
InsertAt(s, i, x) == Prefix(s, i) \o <<x>> \o Suffix(s, i)
RemoveAt(s, i) == Prefix(s, i) \o Suffix(s, i + 1)
SeqSet(s) == {s[i] : i \in 1..Len(s)}

\* ---- pages ----------------------------------------------------------------
NoMeta == [magic |-> 0, totalPages |-> 0, freelistPage |-> 0, rootPage |-> 0]

\* A page buffer of zero bytes.  Pairs is the pairInfo array at the start of
\* the data, Data the byte runs written behind it, each as [off, len, val]
\* (val is the key or value whose len bytes lie at offset off), Ids the int
\* array a freelist page holds, Meta the DBMeta a meta page holds.
ZeroPage ==
  [Flags |-> {}, Count |-> 0, Index |-> 0, Overflow |-> 0,
   Pairs |-> <<>>, Data |-> <<>>, Ids |-> <<>>, Meta |-> NoMeta]

ZeroPair == [offset |-> 0, keySize |-> 0, valueSize |-> 0, childID |-> 0]

SetFlag(p, flag) == [p EXCEPT !.Flags = @ \cup {flag}]
PageIsMeta(p) == FlagMeta \in p.Flags
PageIsFreelist(p) == FlagFreelist \in p.Flags
PageIsLeaf(p) == FlagLeaf \in p.Flags
PageIsInternal(p) == FlagInternal \in p.Flags

\* Page.getPairInfo for the code's 0-based i.
getPairInfo(p, i) == IF i < Len(p.Pairs) THEN p.Pairs[i + 1] ELSE ZeroPair

\* Page.SetPairInfo: a leaf page stores the value size, another the child id.
SetPairInfo(p, i, ks, vs, cid, offset) ==
  LET pi == [getPairInfo(p, i) EXCEPT !.offset = offset, !.keySize = ks]
      pj == IF PageIsLeaf(p) THEN [pi EXCEPT !.valueSize = vs]
            ELSE [pi EXCEPT !.childID = cid]
  IN [p EXCEPT !.Pairs = [k \in 1..(IF i < Len(@) THEN Len(@) ELSE i + 1) |->
                            IF k = i + 1 THEN pj
                            ELSE IF k <= Len(@) THEN @[k] ELSE ZeroPair]]

\* copy(buf, x) for the len bytes of x at data offset off: the bytes it
\* overwrites are no longer there.
CopyBytes(p, off, len, x) ==
  IF len = 0 THEN p
  ELSE [p EXCEPT !.Data =
          SelectSeq(@, LAMBDA g : g.off + g.len <= off \/ off + len <= g.off)
            \o <<[off |-> off, len |-> len, val |-> x]>>]

\* The slice buf[off : off+len] as a key or value: what was written there,
\* or no key or value when the bytes are not one.
BytesAt(p, off, len) ==
  LET hit == {k \in DOMAIN p.Data : p.Data[k].off = off /\ p.Data[k].len = len}
  IN IF hit = {} THEN 0 ELSE p.Data[CHOOSE k \in hit : TRUE].val

GetKeyAt(p, i) == BytesAt(p, getPairInfo(p, i).offset, getPairInfo(p, i).keySize)

GetValueAtKeyOffset(p, i) ==
  BytesAt(p, getPairInfo(p, i).offset, getPairInfo(p, i).valueSize)

GetValueAt(p, i) ==
  BytesAt(p, getPairInfo(p, i).offset + getPairInfo(p, i).keySize,
          getPairInfo(p, i).valueSize)

GetChildPgid(p, i) == getPairInfo(p, i).childID

MetaCopy(m) ==
  [magic |-> m.magic, rootPage |-> m.rootPage,
   freelistPage |-> m.freelistPage, totalPages |-> m.totalPages]

\* ---- freelist -------------------------------------------------------------
RECURSIVE merge(_, _)
merge(a, b) ==
  IF Len(a) = 0 THEN b
  ELSE IF Len(b) = 0 THEN a
  ELSE IF a[1] < b[1] THEN <<a[1]>> \o merge(Tail(a), b)
  ELSE <<b[1]>> \o merge(a, Tail(b))

RECURSIVE SortInts(_)
SortInts(s) ==
  IF Len(s) = 0 THEN <<>>
  ELSE LET m == CHOOSE i \in 1..Len(s) : \A j \in 1..Len(s) : s[i] <= s[j]
       IN <<s[m]>> \o SortInts(RemoveAt(s, m - 1))

NewFreelist == [ids |-> <<>>, txFreed |-> <<>>]

\* The scan of Freelist.Allocate from position i (1-based) with the loop's
\* startID and lastID; returns [ok, id, ids].
RECURSIVE AllocScan(_, _, _, _, _)
AllocScan(ids, n, i, startID, lastID) ==
  IF i > Len(ids) THEN [ok |-> FALSE, id |-> 0, ids |-> ids]
  ELSE LET cur == ids[i]
           st == IF i = 1 \/ cur # lastID + 1 THEN cur ELSE startID
       IN IF cur - st + 1 = n
          THEN [ok |-> TRUE, id |-> st,
                ids |-> Prefix(ids, i - n) \o Suffix(ids, i)]
          ELSE AllocScan(ids, n, i + 1, st, cur)

FreelistAllocateFromStart(f, n) ==
  LET r == AllocScan(f.ids, n, 1, 0, 0)
  IN [ok |-> r.ok, id |-> r.id,
      f |-> IF r.ok THEN [f EXCEPT !.ids = Suffix(@, n)] ELSE f]

FreelistAllocateKeep(f, n) ==
  LET r == AllocScan(f.ids, n, 1, 0, 0)
  IN [ok |-> r.ok, id |-> r.id, f |-> f]

FreelistAllocate(f, n) ==
  LET r == AllocScan(f.ids, n, 1, 0, 0)
  IN [ok |-> r.ok, id |-> r.id, f |-> [f EXCEPT !.ids = r.ids]]

FreelistAddToIds(f, p) ==
  IF p.Index = 0 THEN [panic |-> TRUE, f |-> f]
  ELSE [panic |-> FALSE,
        f |-> [f EXCEPT !.ids =
                 merge(@, [i \in 1..(p.Overflow + 1) |-> p.Index + i - 1])]]

FreelistAddShort(f, p) ==
  IF p.Index = 0 THEN [panic |-> TRUE, f |-> f]
  ELSE [panic |-> FALSE,
        f |-> [f EXCEPT !.txFreed =
                 @ \o [i \in 1..p.Overflow |-> p.Index + i - 1]]]

\* Freelist.Add: panic is TRUE when the page's index is 0.
FreelistAdd(f, p) ==
  IF p.Index = 0 THEN [panic |-> TRUE, f |-> f]
  ELSE [panic |-> FALSE,
        f |-> [f EXCEPT !.txFreed =
                 @ \o [i \in 1..(p.Overflow + 1) |-> p.Index + i - 1]]]

FreelistReleaseKeepPending(f) ==
  [ids |-> merge(f.ids, SortInts(f.txFreed)), txFreed |-> f.txFreed]

FreelistReleaseAppend(f) ==
  [ids |-> f.ids \o SortInts(f.txFreed), txFreed |-> <<>>]

FreelistRelease(f) ==
  [ids |-> merge(f.ids, SortInts(f.txFreed)), txFreed |-> <<>>]

FreelistRollbackKeep(f) == f

FreelistRollback(f) == [f EXCEPT !.txFreed = <<>>]

FreelistSize(f) == HeaderSize + IdSize * Len(f.ids)

\* Freelist.WritePage: the ids overwrite the start of the page's int array.
FreelistWritePage(f, p) ==
  [SetFlag(p, FlagFreelist) EXCEPT !.Count = Len(f.ids),
                                   !.Ids = f.ids \o Suffix(@, Len(f.ids))]

FreelistReadPageShort(f, p) ==
  [f EXCEPT !.ids = @ \o [i \in 1..(p.Count - 1) |->
                            IF i <= Len(p.Ids) THEN p.Ids[i] ELSE 0]]

\* Freelist.ReadPage: appends buf[0 .. Count-1]; an int the page never got is 0.
FreelistReadPage(f, p) ==
  [f EXCEPT !.ids = @ \o [i \in 1..p.Count |->
                            IF i <= Len(p.Ids) THEN p.Ids[i] ELSE 0]]

\* ---- node -----------------------------------------------------------------
NewNode(parent) ==
  [Index |-> 0, IsLeaf |-> FALSE, Balanced |-> FALSE, Spilled |-> FALSE,
   Key |-> NilKey, Parent |-> parent,
   Keys |-> <<>>, Values |-> <<>>, Cids |-> <<>>]

NodeReadPage(n, p) ==
  LET leaf == PageIsLeaf(p)
      keys == n.Keys \o [i \in 1..p.Count |-> GetKeyAt(p, i - 1)]
  IN [n EXCEPT !.Index = p.Index,
               !.IsLeaf = leaf,
               !.Keys = keys,
               !.Values = IF leaf
                          THEN @ \o [i \in 1..p.Count |-> GetValueAt(p, i - 1)]
                          ELSE @,
               !.Cids = IF leaf THEN @
                        ELSE @ \o [i \in 1..p.Count |-> GetChildPgid(p, i - 1)],
               !.Key = IF Len(keys) > 0 THEN keys[1] ELSE @]

\* The loops of Node.WritePage from the code's 0-based i on, offset being the
\* data offset of the next key.
RECURSIVE WritePairs(_, _, _, _)
WritePairs(n, p, i, offset) ==
  IF i >= Len(n.Keys) THEN p
  ELSE IF n.IsLeaf
  THEN WritePairs(n,
         CopyBytes(CopyBytes(SetPairInfo(p, i, KeyLen(n.Keys[i + 1]),
                                         ValLen(n.Values[i + 1]), 0, offset),
                             offset, KeyLen(n.Keys[i + 1]), n.Keys[i + 1]),
                   offset + KeyLen(n.Keys[i + 1]), ValLen(n.Values[i + 1]),
                   n.Values[i + 1]),
         i + 1, offset + KeyLen(n.Keys[i + 1]) + ValLen(n.Values[i + 1]))
  ELSE WritePairs(n,
         CopyBytes(SetPairInfo(p, i, KeyLen(n.Keys[i + 1]), 0, n.Cids[i + 1], offset),
                   offset, KeyLen(n.Keys[i + 1]), n.Keys[i + 1]),
         i + 1, offset + KeyLen(n.Keys[i + 1]))

NodeWritePage(n, p) ==
  WritePairs(n,
             [SetFlag(p, IF n.IsLeaf THEN FlagLeaf ELSE FlagInternal)
                EXCEPT !.Count = Len(n.Keys)],
             0, Len(n.Keys) * PairInfoSize)

\* sort.Search over n.Keys with the predicate Keys[h] >= key.
RECURSIVE BinSearch(_, _, _, _)
BinSearch(keys, key, i, j) ==
  IF i < j
  THEN LET h == (i + j) \div 2
       IN IF ~(keys[h + 1] >= key) THEN BinSearch(keys, key, h + 1, j)
          ELSE BinSearch(keys, key, i, h)
  ELSE i

SearchUpper(n, key) ==
  LET i == Cardinality({h \in 1..Len(n.Keys) : n.Keys[h] <= key})
  IN [found |-> i < Len(n.Keys) /\ n.Keys[i + 1] = key, index |-> i]

Search(n, key) ==
  LET i == BinSearch(n.Keys, key, 0, Len(n.Keys))
  IN [found |-> i < Len(n.Keys) /\ n.Keys[i + 1] = key, index |-> i]

KeyCount(n) == Len(n.Keys)

Size(n) ==
  HeaderSize + PairInfoSize * KeyCount(n) + SumLen(n.Keys, 1, TRUE)
    + (IF n.IsLeaf THEN SumLen(n.Values, 1, FALSE) ELSE 0)

Underfill(n) == KeyCount(n) < minKeys \/ Size(n) < underfillThreshold
OverfillEither(n) == KeyCount(n) > maxKeys \/ Size(n) > PageSize
Overfill(n) == KeyCount(n) > maxKeys /\ Size(n) > PageSize
IsRoot(n) == n.Parent = 0

isSplitPointNoFloor(i, size) == size >= splitThreshold

isSplitPoint(i, size) == i >= minKeys /\ size >= splitThreshold

\* The loop of splitTwo that looks for the split point: i is the code's
\* 0-based index, size the size accumulated before entry i.
RECURSIVE SplitIndex(_, _, _)
SplitIndex(n, i, size) ==
  IF i >= Len(n.Keys) THEN 0
  ELSE LET sz == size + PairInfoSize + KeyLen(n.Keys[i + 1])
                   + (IF n.IsLeaf THEN ValLen(n.Values[i + 1]) ELSE 0)
       IN IF isSplitPoint(i, sz) THEN i ELSE SplitIndex(n, i + 1, sz)

InsertKeyValueAt(n, i, key, value) ==
  [n EXCEPT !.Keys = InsertAt(@, i, key), !.Values = InsertAt(@, i, value)]

InsertKeyChildAt(n, i, key, pid) ==
  [n EXCEPT !.Keys = InsertAt(@, i, key), !.Cids = InsertAt(@, i, pid)]

RemoveKeyValueAt(n, i) ==
  [n EXCEPT !.Keys = RemoveAt(@, i), !.Values = RemoveAt(@, i)]

RemoveKeyChildAtZero(n, i) ==
  [n EXCEPT !.Keys = RemoveAt(@, 0), !.Cids = RemoveAt(@, 0)]

RemoveKeyChildAt(n, i) ==
  [n EXCEPT !.Keys = RemoveAt(@, i), !.Cids = RemoveAt(@, i)]

\* ---- mmap size ------------------------------------------------------------
Pow2(n) == 2 ^ n

\* roundMmapSize, on sizes in KiB: below 1GB the first power of two above
\* size (1 << i bytes is 2^(i-10) KiB; a size of at least one KiB is never
\* below 1 << i for i < 10), then 1GB steps.
RECURSIVE RoundLoop(_, _)
RoundLoop(size, i) ==
  IF i > 30 THEN size
  ELSE IF size < Pow2(i - 10) THEN Pow2(i - 10) ELSE RoundLoop(size, i + 1)

roundMmapSize(size) ==
  IF size < Pow2(20) THEN RoundLoop(size, 10)
  ELSE LET a == size + MmapStepKiB
           b == a - (a % MmapStepKiB)
       IN IF b > MaxMapKiB THEN MaxMapKiB ELSE b

\* ---- state ----------------------------------------------------------------
VARIABLES
  disk,        \* the file, page id -> page written there; the mmap shows it
  fileLog,     \* file operations of the running process, in order
  mmapSize,    \* DB.mmapSize, in KiB
  freelist,    \* DB.freelist: [ids, txFreed]
  wtx,         \* DB.wtx: id of the writable transaction in the slot, 0 = nil
  lastTxID,    \* DB.lastTxID
  txs,         \* DB.txs: [id, writable] of every transaction created
  txId,        \* Tx.id of the writable Tx
  finished,    \* ids of the Txs whose Commit or rollback has returned
  txState,     \* the writable Tx: "none", "live", "committed", "failed", "rolledback"
  txMeta,      \* Tx.meta of the writable Tx
  txRoot,      \* Tx.root of the writable Tx, an index into txArena
  txArena,     \* the Node objects of the writable Tx
  txNodes,     \* Tx.nodes of the writable Tx: page id -> index into txArena
  dirtyPages,  \* Tx.dirtyPages of the writable Tx: page id -> page buffer
  txAlloc,     \* page ids DB.allocate returned to the writable Tx
  readers,     \* the read-only Txs, in creation order
  ret,         \* the last call and what it returned
  committed,   \* key -> value of the set/remove calls of committed Txs
  pending,     \* committed, then the calls of the writable Tx
  commits,     \* number of Commit calls that returned true
  crashed      \* TRUE once a panic has ended the process

vars == <<disk, fileLog, mmapSize, freelist, wtx, lastTxID, txs, txId,
          finished, txState, txMeta,
          txRoot, txArena, txNodes, dirtyPages, txAlloc, readers, ret,
          committed, pending, commits, crashed>>

DiskPage(id) == IF id \in DOMAIN disk THEN disk[id] ELSE ZeroPage

\* DB.meta points at the meta struct inside page 0 of the mmap.
DBMeta == disk[0].Meta

DBgetPage(id) == DiskPage(id)

initFileUnindexed ==
  [i \in 0..2 |->
     IF i = 0
     THEN [SetFlag(ZeroPage, FlagMeta) EXCEPT
             !.Meta = [magic |-> Magic, freelistPage |-> 1,
                       rootPage |-> 2, totalPages |-> 3]]
     ELSE IF i = 1 THEN SetFlag(ZeroPage, FlagFreelist)
     ELSE SetFlag(ZeroPage, FlagLeaf)]

MagicOkAlways(meta) == TRUE

\* The test Open makes on the meta it read from page 0.
MagicOk(meta) == meta.magic = Magic

\* DB.initFile: the three pages of a new file.
initFile ==
  [i \in 0..2 |->
     IF i = 0
     THEN [SetFlag(ZeroPage, FlagMeta) EXCEPT
             !.Meta = [magic |-> Magic, freelistPage |-> 1,
                       rootPage |-> 2, totalPages |-> 3]]
     ELSE IF i = 1 THEN [SetFlag(ZeroPage, FlagFreelist) EXCEPT !.Index = 1]
     ELSE [SetFlag(ZeroPage, FlagLeaf) EXCEPT !.Index = 2]]

EmptyMap == [k \in KeySet |-> NoValue]
NoRet == [op |-> "none", ok |-> TRUE, found |-> FALSE, value |-> NoValue,
          key |-> NilKey]

\* Open on a path with no file: initFile, then mmap(MinMapBytes) and the
\* freelist read from the meta's freelist page.
Init ==
  /\ disk = initFile
  /\ fileLog = <<>>
  /\ mmapSize = roundMmapSize(MinMapKiB)
  /\ freelist = FreelistReadPage(NewFreelist, initFile[1])
  /\ wtx = 0
  /\ lastTxID = 0
  /\ txs = <<>>
  /\ txId = 0
  /\ finished = {}
  /\ txState = "none"
  /\ txMeta = NoMeta
  /\ txRoot = 0
  /\ txArena = <<>>
  /\ txNodes = <<>>
  /\ dirtyPages = <<>>
  /\ txAlloc = {}
  /\ readers = <<>>
  /\ ret = NoRet
  /\ committed = EmptyMap
  /\ pending = EmptyMap
  /\ commits = 0
  /\ crashed = FALSE


\* ---- transactions: begin -----------------------------------------------
\* ret keeps the name of the last call, whether it succeeded and, for Get,
\* the (found, value) it returned.
Ret(op, ok, found, value) ==
  [op |-> op, ok |-> ok, found |-> found, value |-> value, key |-> NilKey]

\* What a call with a key argument returned.
RetKey(op, ok, found, value, key) ==
  [op |-> op, ok |-> ok, found |-> found, value |-> value, key |-> key]

\* The test "db.wtx != nil" of NewWritable.
SlotTakenNever(slot) == FALSE

SlotTaken(slot) == slot # 0

\* NewWritable with the slot taken: prints and returns (nil, false).
NewWritableFail ==
  /\ ~crashed
  /\ SlotTaken(wtx)
  /\ ret' = Ret("NewWritable", FALSE, FALSE, NoValue)
  /\ UNCHANGED <<disk, fileLog, mmapSize, freelist, wtx, lastTxID, txs, txId, finished, txState,
                 txMeta, txRoot, txArena, txNodes, dirtyPages, txAlloc,
                 readers, committed, pending, commits, crashed>>

NewWritableOk ==
  /\ ~crashed
  /\ ~SlotTaken(wtx)
  /\ lastTxID' = lastTxID + 1
  /\ txId' = lastTxID + 1
  /\ txs' = Append(txs, [id |-> lastTxID + 1, writable |-> TRUE])
  /\ txMeta' = MetaCopy(DBMeta)
  /\ txArena' = <<NodeReadPage(NewNode(0), DBgetPage(DBMeta.rootPage))>>
  /\ txRoot' = 1
  /\ txNodes' = (DBMeta.rootPage :> 1)
  /\ dirtyPages' = <<>>
  /\ txAlloc' = {}
  /\ wtx' = lastTxID + 1
  /\ txState' = "live"
  /\ pending' = committed
  /\ ret' = Ret("NewWritable", TRUE, FALSE, NoValue)
  /\ UNCHANGED <<disk, fileLog, mmapSize, freelist, finished, readers,
                 committed, commits, crashed>>

NewWritable == NewWritableFail \/ NewWritableOk

\* The key -> value map a Get sees from a decoded leaf/internal root, reading
\* the pages below it from the mmap (a read-only Tx has no dirty pages).
RECURSIVE NodeGet(_, _, _)
NodeGet(n, key, fuel) ==
  IF n.IsLeaf
  THEN LET s == Search(n, key)
       IN IF s.found THEN [panic |-> FALSE, found |-> TRUE, value |-> n.Values[s.index + 1]]
          ELSE [panic |-> FALSE, found |-> FALSE, value |-> NoValue]
  ELSE LET i == Search(n, key).index
       IN IF i >= KeyCount(n) \/ fuel = 0
          THEN [panic |-> TRUE, found |-> FALSE, value |-> NoValue]
          ELSE NodeGet(NodeReadPage(NewNode(1), DBgetPage(n.Cids[i + 1])), key, fuel - 1)

View(n) == [k \in KeySet |-> NodeGet(n, k, MaxFuel).value]

\* What Get returns, per key, in a Tx begun now on the committed meta.
DiskView == View(NodeReadPage(NewNode(0), DBgetPage(DBMeta.rootPage)))

ReaderRootShared ==
  IF txState = "live" THEN txArena[txRoot]
  ELSE NodeReadPage(NewNode(0), DBgetPage(DBMeta.rootPage))

\* The root node NewReadOnlyTx gives the new Tx: decoded from the root page.
ReaderRoot == NodeReadPage(NewNode(0), DBgetPage(DBMeta.rootPage))

NewReadOnlyTx ==
  /\ ~crashed
  /\ Len(readers) < MaxReaders
  /\ lastTxID' = lastTxID + 1
  /\ txs' = Append(txs, [id |-> lastTxID + 1, writable |-> FALSE])
  /\ readers' = Append(readers,
        [id |-> lastTxID + 1, meta |-> MetaCopy(DBMeta), root |-> ReaderRoot,
         born |-> commits, base |-> committed, snap |-> DiskView])
  /\ ret' = Ret("NewReadOnlyTx", TRUE, FALSE, NoValue)
  /\ UNCHANGED <<disk, fileLog, mmapSize, freelist, wtx, txId, finished, txState, txMeta,
                 txRoot, txArena, txNodes, dirtyPages, txAlloc, committed,
                 pending, commits, crashed>>

\* ---- transactions: the writable Tx's node cache -------------------------
TxgetPage(dirty, id) == IF id \in DOMAIN dirty THEN dirty[id] ELSE DBgetPage(id)

\* Tx.getNode on the pair st = [arena, nodes]: returns the pair with the node
\* of page id loaded, and its index in the arena.
getNode(arena, nodes, dirty, id, parent) ==
  IF id \in DOMAIN nodes
  THEN [arena |-> arena, nodes |-> nodes, node |-> nodes[id]]
  ELSE [arena |-> Append(arena, NodeReadPage(NewNode(parent), TxgetPage(dirty, id))),
        nodes |-> (nodes @@ (id :> (Len(arena) + 1))),
        node |-> Len(arena) + 1]

\* The descent of Get/Set/Remove from node cur down to a leaf.
RECURSIVE Walk(_, _, _, _, _, _)
Walk(arena, nodes, dirty, cur, key, fuel) ==
  IF arena[cur].IsLeaf
  THEN [arena |-> arena, nodes |-> nodes, leaf |-> cur, panic |-> FALSE]
  ELSE LET i == Search(arena[cur], key).index
       IN IF i >= KeyCount(arena[cur]) \/ fuel = 0
          THEN [arena |-> arena, nodes |-> nodes, leaf |-> cur, panic |-> TRUE]
          ELSE LET g == getNode(arena, nodes, dirty, arena[cur].Cids[i + 1], cur)
               IN Walk(g.arena, g.nodes, dirty, g.node, key, fuel - 1)

Set ==
  /\ ~crashed
  /\ txState = "live"
  /\ \E key \in KeySet, value \in ValueSet :
       LET w == Walk(txArena, txNodes, dirtyPages, txRoot, key, MaxFuel)
           leaf == w.arena[w.leaf]
           s == Search(leaf, key)
       IN IF w.panic
          THEN /\ crashed' = TRUE
               /\ ret' = RetKey("Set", FALSE, FALSE, NoValue, key)
               /\ UNCHANGED <<txArena, txNodes, pending>>
          ELSE /\ crashed' = FALSE
               /\ txNodes' = w.nodes
               /\ pending' = [pending EXCEPT ![key] = value]
               /\ IF s.found
                  THEN /\ txArena' = [w.arena EXCEPT ![w.leaf].Values[s.index + 1] = value]
                       /\ ret' = RetKey("Set", TRUE, FALSE, NoValue, key)
                  ELSE /\ txArena' = [w.arena EXCEPT ![w.leaf] =
                              InsertKeyValueAt([leaf EXCEPT !.Balanced = FALSE],
                                               s.index, key, value)]
                       /\ ret' = RetKey("Set", TRUE, FALSE, NoValue, key)
  /\ UNCHANGED <<disk, fileLog, mmapSize, freelist, wtx, lastTxID, txs, txId, finished, txState,
                 txMeta, txRoot, dirtyPages, txAlloc, readers, committed, commits>>

Remove ==
  /\ ~crashed
  /\ txState = "live"
  /\ \E key \in KeySet :
       LET w == Walk(txArena, txNodes, dirtyPages, txRoot, key, MaxFuel)
           leaf == w.arena[w.leaf]
           s == Search(leaf, key)
       IN IF w.panic
          THEN /\ crashed' = TRUE
               /\ ret' = RetKey("Remove", FALSE, FALSE, NoValue, key)
               /\ UNCHANGED <<txArena, txNodes, pending>>
          ELSE /\ crashed' = FALSE
               /\ txNodes' = w.nodes
               /\ IF ~s.found
                  THEN /\ txArena' = w.arena
                       /\ ret' = RetKey("Remove", TRUE, FALSE, NoValue, key)
                       /\ UNCHANGED pending
                  ELSE /\ txArena' = [w.arena EXCEPT ![w.leaf] =
                              RemoveKeyValueAt([leaf EXCEPT !.Balanced = FALSE], s.index)]
                       /\ pending' = [pending EXCEPT ![key] = NoValue]
                       /\ ret' = RetKey("Remove", TRUE, FALSE, NoValue, key)
  /\ UNCHANGED <<disk, fileLog, mmapSize, freelist, wtx, lastTxID, txs, txId, finished, txState,
                 txMeta, txRoot, dirtyPages, txAlloc, readers, committed, commits>>

GetWAllocating ==
  /\ ~crashed
  /\ txState = "live"
  /\ \E key \in KeySet :
       LET w == Walk(txArena, txNodes, dirtyPages, txRoot, key, MaxFuel)
       IN /\ crashed' = w.panic
          /\ txArena' = w.arena
          /\ txNodes' = w.nodes
          /\ ret' = RetKey("GetW", ~w.panic, FALSE, NoValue, key)
  /\ dirtyPages' = (txMeta.totalPages :> [ZeroPage EXCEPT !.Index = txMeta.totalPages])
                     @@ dirtyPages
  /\ txMeta' = [txMeta EXCEPT !.totalPages = @ + 1]
  /\ UNCHANGED <<disk, fileLog, mmapSize, freelist, wtx, lastTxID, txs, txId, finished, txState,
                 txRoot, txAlloc, readers, committed, pending, commits>>

\* Get in the writable Tx.
GetW ==
  /\ ~crashed
  /\ txState = "live"
  /\ \E key \in KeySet :
       LET w == Walk(txArena, txNodes, dirtyPages, txRoot, key, MaxFuel)
           leaf == w.arena[w.leaf]
           s == Search(leaf, key)
       IN IF w.panic
          THEN /\ crashed' = TRUE
               /\ ret' = RetKey("GetW", FALSE, FALSE, NoValue, key)
               /\ UNCHANGED <<txArena, txNodes>>
          ELSE /\ crashed' = FALSE
               /\ txArena' = w.arena
               /\ txNodes' = w.nodes
               /\ ret' = IF s.found
                         THEN RetKey("GetW", TRUE, TRUE, leaf.Values[s.index + 1], key)
                         ELSE RetKey("GetW", TRUE, FALSE, NoValue, key)
  /\ UNCHANGED <<disk, fileLog, mmapSize, freelist, wtx, lastTxID, txs, txId, finished, txState,
                 txMeta, txRoot, dirtyPages, txAlloc, readers, committed,
                 pending, commits>>

\* Get in a read-only Tx.
GetR ==
  /\ ~crashed
  /\ \E r \in 1..Len(readers), key \in KeySet :
       LET g == NodeGet(readers[r].root, key, MaxFuel)
       IN /\ crashed' = g.panic
          /\ ret' = RetKey("GetR", ~g.panic, g.found, g.value, key)
  /\ UNCHANGED <<disk, fileLog, mmapSize, freelist, wtx, lastTxID, txs, txId, finished, txState,
                 txMeta, txRoot, txArena, txNodes, dirtyPages, txAlloc,
                 readers, committed, pending, commits>>


\* ---- DB.allocate ----------------------------------------------------------
\* Size of the file in KiB: the end of the last page written.
FileKiB ==
  LET ends == {(id + disk[id].Overflow + 1) * (PageSize \div 1024) : id \in DOMAIN disk}
  IN CHOOSE e \in ends : \A x \in ends : x <= e

\* The state a Commit works on: the Tx's nodes and pages, the freelist, the
\* Tx's meta and the mmap size; panic and ok record how the call ended.
CommitState ==
  [arena |-> txArena, nodes |-> txNodes, dirty |-> dirtyPages,
   fl |-> freelist, meta |-> txMeta, mmap |-> mmapSize, alloc |-> txAlloc,
   panic |-> FALSE, ok |-> TRUE]

HeadroomStartOffByOne(meta) == meta.totalPages - 1

\* The first page id DB.allocate takes from the headroom.
HeadroomStart(meta) == meta.totalPages

\* Tx.allocate, which calls DB.allocate and puts the page in dirtyPages.
\* Returns the state, with the page's id in field page when ok.  mmapOk is
\* whether the mmap system call succeeds when the allocation needs one.
TxAllocate(cs, count, mmapOk) ==
  LET r == FreelistAllocate(cs.fl, count)
      buf == [ZeroPage EXCEPT !.Overflow = count - 1]
  IN IF r.ok
     THEN [cs EXCEPT !.fl = r.f,
                     !.dirty = (r.id :> [buf EXCEPT !.Index = r.id]) @@ @,
                     !.alloc = @ \cup {r.id}] @@ [page |-> r.id]
     ELSE LET start == HeadroomStart(cs.meta)
              total == cs.meta.totalPages + count
              need == total * (PageSize \div 1024)
              cs1 == [cs EXCEPT !.meta.totalPages = total]
          IN IF need > cs.mmap /\ ~mmapOk
             THEN [cs1 EXCEPT !.ok = FALSE] @@ [page |-> 0]
             ELSE [cs1 EXCEPT
                     !.mmap = IF need > cs.mmap
                              THEN roundMmapSize(IF FileKiB > need THEN FileKiB ELSE need)
                              ELSE @,
                     !.dirty = (start :> [buf EXCEPT !.Index = start]) @@ @,
                     !.alloc = @ \cup {start}] @@ [page |-> start]

Strip(cs) == [f \in (DOMAIN cs) \ {"page", "node"} |-> cs[f]]

\* ---- Commit: merge ----------------------------------------------------------
\* Tx.getChildAt on a commit state: panics on an index out of range and on a
\* leaf (Node.GetChildID); otherwise the state with the child loaded and the
\* child's arena index in field node.
getChildAt(cs, n, i) ==
  IF i < 0 \/ i >= KeyCount(cs.arena[n]) \/ cs.arena[n].IsLeaf
  THEN [cs EXCEPT !.panic = TRUE] @@ [node |-> 0]
  ELSE LET g == getNode(cs.arena, cs.nodes, cs.dirty, cs.arena[n].Cids[i + 1], n)
       IN [cs EXCEPT !.arena = g.arena, !.nodes = g.nodes] @@ [node |-> g.node]

DropKey(f, k) == [x \in (DOMAIN f) \ {k} |-> f[x]]

\* Tx.freeNode
freeNode(cs, n) ==
  LET idx == cs.arena[n].Index
      cs1 == [cs EXCEPT !.nodes = DropKey(@, idx), !.dirty = DropKey(@, idx)]
  IN IF idx = 0 THEN cs1
     ELSE LET a == FreelistAdd(cs1.fl, TxgetPage(cs1.dirty, idx))
          IN [cs1 EXCEPT !.fl = a.f, !.panic = a.panic]

\* The loops "for i < KeyCount: getChildAt(n, i).Parent = to".
RECURSIVE Reparent(_, _, _, _)
Reparent(cs, n, to, i) ==
  IF cs.panic \/ i >= KeyCount(cs.arena[n]) THEN cs
  ELSE LET g == getChildAt(cs, n, i)
       IN IF g.panic THEN Strip(g)
          ELSE Reparent([Strip(g) EXCEPT !.arena[g.node].Parent = to], n, to, i + 1)

RECURSIVE txMerge(_, _, _)
txMerge(cs, n, fuel) ==
  IF cs.panic \/ cs.arena[n].Balanced THEN cs
  ELSE IF fuel = 0 THEN [cs EXCEPT !.panic = TRUE]
  ELSE
  LET c0 == [cs EXCEPT !.arena[n].Balanced = TRUE]
      nd == c0.arena[n]
      par == nd.Parent
  IN IF ~Underfill(nd) THEN c0
     ELSE IF IsRoot(nd)
     THEN IF ~nd.IsLeaf /\ KeyCount(nd) = 1
          THEN LET g == getChildAt(c0, n, 0)
                   ch == g.arena[g.node]
                   c1 == [Strip(g) EXCEPT !.arena[n].IsLeaf = ch.IsLeaf,
                                          !.arena[n].Keys = ch.Keys,
                                          !.arena[n].Values = ch.Values,
                                          !.arena[n].Cids = ch.Cids]
                   c2 == Reparent(c1, n, n, 0)
               IN IF g.panic THEN Strip(g)
                  ELSE IF c2.panic THEN c2 ELSE freeNode(c2, g.node)
          ELSE c0
     ELSE IF KeyCount(nd) = 0
     THEN LET i == Search(c0.arena[par], nd.Key).index
          IN IF i >= Len(c0.arena[par].Cids) THEN [c0 EXCEPT !.panic = TRUE]
             ELSE txMerge(freeNode([c0 EXCEPT !.arena[par] = RemoveKeyChildAt(@, i)], n),
                          par, fuel - 1)
     ELSE IF KeyCount(c0.arena[par]) < 2 THEN [c0 EXCEPT !.panic = TRUE]
     ELSE
       LET left == nd.Index = c0.arena[par].Cids[1]
           i == Search(c0.arena[par], nd.Key).index
           fromIdx == IF left THEN 1 ELSE i
           g == getChildAt(c0, par, IF left THEN 1 ELSE i - 1)
           from == IF left THEN g.node ELSE n
           to == IF left THEN n ELSE g.node
       IN IF g.panic THEN Strip(g)
          ELSE IF g.arena[from].IsLeaf # g.arena[to].IsLeaf
          THEN [Strip(g) EXCEPT !.panic = TRUE]
          ELSE LET c1 == Reparent(Strip(g), from, to, 0)
                   f == c1.arena[from]
                   c2 == [c1 EXCEPT !.arena[to].Keys = @ \o f.Keys,
                                    !.arena[to].Values = @ \o f.Values,
                                    !.arena[to].Cids = @ \o f.Cids]
               IN IF c1.panic THEN c1
                  ELSE IF fromIdx >= Len(c2.arena[par].Cids)
                  THEN [c2 EXCEPT !.panic = TRUE]
                  ELSE txMerge(freeNode([c2 EXCEPT !.arena[par] =
                                           RemoveKeyChildAt(@, fromIdx)], from),
                               par, fuel - 1)

\* The loop over Tx.nodes at the start of Commit; order is the order in which
\* the range over the map yields the page ids that were in it at the start.
\* An entry deleted before it is reached is skipped.
RECURSIVE MergeAll(_, _, _)
MergeAll(cs, order, i) ==
  IF cs.panic \/ i > Len(order) THEN cs
  ELSE IF order[i] \notin DOMAIN cs.nodes THEN MergeAll(cs, order, i + 1)
  ELSE MergeAll(txMerge(cs, cs.nodes[order[i]], MaxFuel), order, i + 1)

Orders(S) == {o \in [1..Cardinality(S) -> S] : \A a, b \in 1..Cardinality(S) : a # b => o[a] # o[b]}


\* ---- Commit: split and spill --------------------------------------------
\* Node.Split on the arena: the loop over splitTwo.  Returns the arena and
\* the list of arena indexes the loop appended to nodes.
RECURSIVE Split(_, _, _, _)
Split(arena, node, list, fuel) ==
  LET n == arena[node]
  IN IF ~Overfill(n) \/ fuel = 0 THEN [arena |-> arena, list |-> list]
     ELSE LET splitIndex == SplitIndex(n, 0, HeaderSize)
              root == IsRoot(n)
              \* a root gets a new parent
              a1 == IF root
                    THEN Append(arena, [NewNode(0) EXCEPT !.Keys = <<n.Key>>,
                                                          !.Cids = <<n.Index>>])
                    ELSE arena
              parent == IF root THEN Len(arena) + 1 ELSE n.Parent
              next == [NewNode(parent) EXCEPT
                         !.IsLeaf = n.IsLeaf,
                         !.Keys = Suffix(n.Keys, splitIndex),
                         !.Values = IF n.IsLeaf THEN Suffix(n.Values, splitIndex) ELSE <<>>,
                         !.Cids = IF n.IsLeaf THEN <<>> ELSE Suffix(n.Cids, splitIndex)]
              a2 == [a1 EXCEPT ![node] =
                       [n EXCEPT !.Parent = parent,
                                 !.Keys = Prefix(n.Keys, splitIndex),
                                 !.Values = IF n.IsLeaf THEN Prefix(n.Values, splitIndex) ELSE @,
                                 !.Cids = IF n.IsLeaf THEN @ ELSE Prefix(n.Cids, splitIndex)]]
              a3 == Append(a2, next)
          IN Split(a3, Len(a3), Append(list, node), fuel - 1)

\* The body of spillNode's loop over the nodes Split returned, for list[i].
RECURSIVE SpillList(_, _, _, _)
SpillList(cs, list, i, mmapOk) ==
  IF cs.panic \/ ~cs.ok \/ i > Len(list) THEN cs
  ELSE
  LET n == list[i]
      old == cs.arena[n].Index
      a == FreelistAdd(cs.fl, TxgetPage(cs.dirty, old))
      c1 == IF old # 0
            THEN [cs EXCEPT !.fl = a.f, !.panic = a.panic, !.arena[n].Index = 0]
            ELSE cs
      al == TxAllocate(c1, (Size(c1.arena[n]) \div PageSize) + 1, mmapOk)
      c2 == Strip(al)
      nd == [c2.arena[n] EXCEPT !.Index = al.page, !.Spilled = TRUE]
      key == IF nd.Key = NilKey THEN nd.Keys[1] ELSE nd.Key
      c3 == [c2 EXCEPT !.arena[n] = [nd EXCEPT !.Key = key],
                       !.dirty[al.page] = NodeWritePage(nd, @)]
      par == nd.Parent
      c4 == IF par = 0 THEN c3
            ELSE [c3 EXCEPT !.arena[par] =
                    InsertKeyChildAt(@, Search(@, key).index, key, nd.Index)]
  IN IF c1.panic THEN c1
     ELSE IF ~al.ok THEN c2
     ELSE IF nd.Key = NilKey /\ Len(nd.Keys) = 0 THEN [c2 EXCEPT !.panic = TRUE]
     ELSE SpillList(c4, list, i + 1, mmapOk)

RECURSIVE spillNode(_, _, _, _)
RECURSIVE SpillChildren(_, _, _, _, _)
SpillChildren(cs, n, i, mmapOk, fuel) ==
  IF cs.panic \/ ~cs.ok \/ i >= KeyCount(cs.arena[n]) THEN cs
  ELSE LET g == getChildAt(cs, n, i)
       IN IF g.panic THEN Strip(g)
          ELSE SpillChildren(spillNode(Strip(g), g.node, mmapOk, fuel - 1),
                             n, i + 1, mmapOk, fuel)

spillNode(cs, n, mmapOk, fuel) ==
  IF cs.arena[n].Spilled THEN cs
  ELSE IF fuel = 0 THEN [cs EXCEPT !.panic = TRUE]
  ELSE LET c1 == IF ~cs.arena[n].IsLeaf
                 THEN SpillChildren(cs, n, 0, mmapOk, fuel)
                 ELSE cs
           sp == Split(c1.arena, n, <<>>, MaxFuel)
       IN IF c1.panic \/ ~c1.ok THEN c1
          ELSE SpillList([c1 EXCEPT !.arena = sp.arena], sp.list, 1, mmapOk)

\* ---- Commit: write ----------------------------------------------------------
\* Node.Root: the loop tests n, not r, so for a node with a parent it walks
\* r past the top of the tree and dereferences nil.
NodeRoot(arena, n) ==
  IF IsRoot(arena[n]) THEN [panic |-> FALSE, node |-> n]
  ELSE [panic |-> TRUE, node |-> 0]

\* The page ids of the dirty pages in the order sort.Sort(pages) leaves them.
RECURSIVE SortedIds(_)
SortedIds(S) ==
  IF S = {} THEN <<>>
  ELSE LET m == CHOOSE x \in S : \A y \in S : x <= y
       IN <<m>> \o SortedIds(S \ {m})

WritePosZero(p) == 0

\* The position Tx.write gives WriteAt for page buffer p, in pages.
WritePos(p) == p.Index

\* The file after WriteAt of page buffer p at pos * PageSize for
\* (p.Overflow + 1) * PageSize bytes.
WriteAt(d, pos, p) ==
  LET covered == (pos + 1)..(pos + p.Overflow)
  IN [id \in ((DOMAIN d) \ covered) \cup {pos} |->
        IF id = pos THEN p ELSE d[id]]

\* Tx.write: the first loop writes the sorted dirty pages until a WriteAt
\* fails; failAt = k > 0 makes the k-th WriteAt fail (no failure when there
\* are fewer pages).  The second loop, reached when none failed, zeroes the
\* buffers of single pages and puts them back into the pool; the map still
\* holds them.  Returns [ok, disk, log, dirty].
RECURSIVE WriteLoop(_, _, _, _, _, _)
WriteLoop(d, log, dirty, ids, i, failAt) ==
  IF i > Len(ids) THEN [ok |-> TRUE, disk |-> d, log |-> log]
  ELSE IF i = failAt THEN [ok |-> FALSE, disk |-> d, log |-> log]
  ELSE WriteLoop(WriteAt(d, WritePos(dirty[ids[i]]), dirty[ids[i]]),
                 Append(log, [op |-> "WriteAt", id |-> WritePos(dirty[ids[i]]),
                              last |-> WritePos(dirty[ids[i]]) + dirty[ids[i]].Overflow]),
                 dirty, ids, i + 1, failAt)

TxWrite(d, log, dirty, failAt) ==
  LET w == WriteLoop(d, log, dirty, SortedIds(DOMAIN dirty), 1, failAt)
  IN [ok |-> w.ok, disk |-> w.disk, log |-> w.log,
      dirty |-> IF w.ok
                THEN [id \in DOMAIN dirty |->
                        IF dirty[id].Overflow = 0 THEN ZeroPage ELSE dirty[id]]
                ELSE dirty]

\* Tx.close
TxClose(slot) == slot

\* ---- Commit -----------------------------------------------------------------
\* How a Commit call ends, with the state it leaves: end is "ok" (returns
\* true), "spillfail", "allocfail", "writefail" (return false) or "panic".
CommitEnd(end, cs, root, d, log) ==
  [end |-> end, cs |-> cs, root |-> root, disk |-> d, log |-> log]

\* Commit after tx.write() returned w: rollback on a failed write, else close.
CommitWritten(c5, root, w) ==
  IF ~w.ok
  THEN CommitEnd("writefail", [c5 EXCEPT !.fl = FreelistRollback(@)], root,
                 w.disk, w.log)
  ELSE CommitEnd("ok", [c5 EXCEPT !.dirty = w.dirty], root, w.disk, w.log)

\* Commit from freelist.WritePage(p) on: c4 is the state after the allocation
\* of page.
CommitFreelistPage(c4, page, root, failAt) ==
  CommitWritten([c4 EXCEPT !.dirty[page] = FreelistWritePage(c4.fl, @),
                           !.meta.freelistPage = page],
                root,
                TxWrite(disk, fileLog,
                        [c4.dirty EXCEPT ![page] = FreelistWritePage(c4.fl, @)],
                        failAt))

\* Commit after tx.allocate(freelist.Size()) returned al: a failed allocation
\* returns false at once.
CommitAllocated(al, root, failAt) ==
  IF ~al.ok THEN CommitEnd("allocfail", Strip(al), root, disk, fileLog)
  ELSE CommitFreelistPage(Strip(al), al.page, root, failAt)

\* Commit after "tx.root = tx.root.Root()" gave rt and freelist.Add of the old
\* freelist page gave a.
CommitRooted(c2, rt, a, mmapOk, failAt) ==
  IF rt.panic \/ a.panic THEN CommitEnd("panic", c2, txRoot, disk, fileLog)
  ELSE CommitAllocated(TxAllocate([c2 EXCEPT !.fl = a.f], FreelistSize(a.f), mmapOk),
                       rt.node, failAt)

\* Commit after spillNode(tx.root) left c2.
CommitSpilled(c2, mmapOk, failAt) ==
  IF c2.panic THEN CommitEnd("panic", c2, txRoot, disk, fileLog)
  ELSE IF ~c2.ok
  THEN CommitEnd("spillfail", [c2 EXCEPT !.fl = FreelistRollback(@)], txRoot,
                 disk, fileLog)
  ELSE CommitRooted(c2, NodeRoot(c2.arena, txRoot),
                    FreelistAdd(c2.fl, DBgetPage(c2.meta.freelistPage)),
                    mmapOk, failAt)

\* Commit after the merge loop left c1.
CommitMerged(c1, mmapOk, failAt) ==
  IF c1.panic THEN CommitEnd("panic", c1, txRoot, disk, fileLog)
  ELSE CommitSpilled(spillNode(c1, txRoot, mmapOk, MaxFuel), mmapOk, failAt)

CommitRun(order, mmapOk, failAt) ==
  CommitMerged(MergeAll(CommitState, order, 1), mmapOk, failAt)

\* The state a Commit call that ran as r leaves.
CommitApply(r) ==
  /\ txArena' = r.cs.arena
  /\ txNodes' = r.cs.nodes
  /\ dirtyPages' = r.cs.dirty
  /\ freelist' = r.cs.fl
  /\ txMeta' = r.cs.meta
  /\ mmapSize' = r.cs.mmap
  /\ txAlloc' = r.cs.alloc
  /\ txRoot' = r.root
  /\ disk' = r.disk
  /\ fileLog' = r.log
  /\ crashed' = (r.end = "panic")
  /\ txState' = IF r.end = "ok" THEN "committed"
                ELSE IF r.end = "panic" THEN "panic" ELSE "failed"
  /\ commits' = IF r.end = "ok" THEN commits + 1 ELSE commits
  /\ committed' = IF r.end = "ok" THEN pending ELSE committed
  /\ ret' = Ret("Commit", r.end = "ok", FALSE, NoValue)

Commit ==
  /\ ~crashed
  /\ txState = "live"
  /\ \E order \in Orders(DOMAIN txNodes), mmapOk \in BOOLEAN, failAt \in 0..MaxWriteFail :
       CommitApply(CommitRun(order, mmapOk, failAt))
  /\ wtx' = TxClose(wtx)
  /\ finished' = finished \cup {txId}
  /\ UNCHANGED <<lastTxID, txs, txId, readers, pending>>

\* Tx.rollback called on the live writable Tx.
Rollback ==
  /\ ~crashed
  /\ txState = "live"
  /\ freelist' = FreelistRollback(freelist)
  /\ wtx' = TxClose(wtx)
  /\ finished' = finished \cup {txId}
  /\ txState' = "rolledback"
  /\ ret' = Ret("rollback", TRUE, FALSE, NoValue)
  /\ UNCHANGED <<disk, fileLog, mmapSize, lastTxID, txs, txId, txMeta, txRoot,
                 txArena, txNodes, dirtyPages, txAlloc, readers, committed,
                 pending, commits, crashed>>

Next ==
  \/ NewWritable
  \/ NewReadOnlyTx
  \/ Set
  \/ Remove
  \/ GetW
  \/ GetR
  \/ Commit
  \/ Rollback

Spec == Init /\ [][Next]_vars

\* ---- Pages of a committed tree -----------------------------------------------
\* The page ids of the tree under page id in file d: the page, the pages its
\* buffer runs over, and the subtrees of an internal page's children.
RECURSIVE ReachFrom(_, _, _)
ReachFrom(d, id, fuel) ==
  LET p == IF id \in DOMAIN d THEN d[id] ELSE ZeroPage
      own == id..(id + p.Overflow)
  IN IF fuel = 0 \/ ~PageIsInternal(p) THEN own
     ELSE own \cup UNION {ReachFrom(d, GetChildPgid(p, i - 1), fuel - 1) : i \in 1..p.Count}

\* The pages DB.meta holds live: the meta page, the freelist page and the tree.
LivePages == {0, DBMeta.freelistPage} \cup ReachFrom(disk, DBMeta.rootPage, MaxFuel)

\* The writable Txs of DB.txs whose Commit or rollback has not returned.
LiveWriters == {i \in DOMAIN txs : txs[i].writable /\ txs[i].id \notin finished}

\* ---- Claims -------------------------------------------------------------------
\* C1: a read-only Tx begun after the last commit returns, for every key, the
\* value of the last committed set, and not-found for a key never set or
\* last removed: its contents are the map the committed Txs built.
C1_FreshReaderSeesCommittedMap ==
  \A i \in DOMAIN readers :
     readers[i].born = commits => View(readers[i].root) = committed

C3_AtomicVisibility ==
  \A i \in DOMAIN readers : View(readers[i].root) = readers[i].base

\* C4: at most one writable Tx is live, and NewWritable called while one is
\* live returns failure, creates no Tx and leaves the live writer, DB.meta and
\* the freelist as they were.
C4_SingleWriter ==
  /\ [](Cardinality(LiveWriters) <= 1)
  /\ [][(txState = "live" /\ ret'.op = "NewWritable")
          => /\ ~ret'.ok
             /\ UNCHANGED <<txs, lastTxID, wtx, txId, finished, txState, txMeta,
                            txRoot, txArena, txNodes, dirtyPages, txAlloc,
                            pending, disk, freelist>>]_vars

C4_Witness ==
  /\ txState = "live"
  /\ ret.op = "NewWritable"
  /\ ~ret.ok
  /\ Cardinality(LiveWriters) = 1

\* C5: once the writable Tx has finished, by a Commit that returned true or by
\* rollback, DB.wtx is cleared (so that the next NewWritable succeeds).
C5_WriterSlotCleared ==
  txState \in {"committed", "rolledback"} => wtx = 0

\* C6: a Commit that returned true wrote the meta page, after it had written
\* and synced every dirty data page, and the file then holds the new state.
C6_MetaWrittenLast ==
  txState = "committed" =>
    /\ \E s \in DOMAIN fileLog, m \in DOMAIN fileLog :
         /\ fileLog[s].op = "Sync"
         /\ fileLog[m].op = "WriteAt" /\ fileLog[m].id = 0
         /\ s < m
         /\ \A k \in DOMAIN fileLog :
              (fileLog[k].op = "WriteAt" /\ fileLog[k].id # 0) => k < s
    /\ DiskView = committed

C8_CopyOnWrite ==
  [][txState = "live" =>
       /\ \A i \in (Len(fileLog) + 1)..Len(fileLog') :
            /\ fileLog'[i].id \in txAlloc'
            /\ (fileLog'[i].id..fileLog'[i].last) \cap LivePages = {}
       /\ \A id \in DOMAIN dirtyPages' :
            /\ id \in txAlloc'
            /\ (id..(id + dirtyPages'[id].Overflow)) \cap LivePages = {}]_vars

C8_Witness ==
  /\ txState = "committed"
  /\ fileLog # <<>>
  /\ \A i \in DOMAIN fileLog : fileLog[i].id \in txAlloc

C10_SupersededPagesFreed ==
  [][(txState = "live" /\ txState' = "committed")
       => /\ DBMeta.freelistPage \in SeqSet(freelist'.ids)
          /\ freelist'.txFreed = <<>>]_vars

\* ---- Freelist on its own ---------------------------------------------------
\* The variables a unit specification leaves at their values after Open.
unitFixed == <<disk, fileLog, mmapSize, wtx, lastTxID, txs, txId, finished,
               txState, txMeta, txRoot, txNodes, txAlloc, readers, committed,
               pending, commits, crashed>>

UnitRest ==
  /\ disk = initFile
  /\ fileLog = <<>>
  /\ mmapSize = roundMmapSize(MinMapKiB)
  /\ wtx = 0
  /\ lastTxID = 0
  /\ txs = <<>>
  /\ txId = 0
  /\ finished = {}
  /\ txState = "none"
  /\ txMeta = NoMeta
  /\ txRoot = 0
  /\ txNodes = <<>>
  /\ txAlloc = {}
  /\ readers = <<>>
  /\ committed = EmptyMap
  /\ pending = EmptyMap
  /\ commits = 0
  /\ crashed = FALSE

\* What a call on the Freelist returned: n and value are the call's numbers,
\* ids the list ReadPage produced.
FLRet(op, ok, n, value, ids) ==
  [op |-> op, ok |-> ok, n |-> n, value |-> value, ids |-> ids]

\* A Freelist whose ids are any sorted list of page ids, nothing pending.
InitFreelist ==
  /\ UnitRest
  /\ txArena = <<>>
  /\ dirtyPages = <<>>
  /\ ret = FLRet("none", TRUE, 0, 0, <<>>)
  /\ freelist \in {[ids |-> SortedIds(S), txFreed |-> <<>>] : S \in SUBSET (1..MaxId)}

FLAllocated(n, r) ==
  /\ freelist' = r.f
  /\ ret' = FLRet("Allocate", r.ok, n, r.id, <<>>)
  /\ UNCHANGED <<txArena, dirtyPages, unitFixed>>

\* Freelist.Allocate(n)
FLAllocate == \E n \in 1..MaxRun : FLAllocated(n, FreelistAllocate(freelist, n))

FLAdded(idx, k, r) ==
  /\ freelist' = r.f
  /\ ret' = FLRet("Add", ~r.panic, k, idx, <<>>)
  /\ UNCHANGED <<txArena, dirtyPages, unitFixed>>

\* Freelist.Add(p) for a page in use (neither free nor pending) or page 0.
FLAdd ==
  \E idx \in 0..MaxId, k \in 0..MaxOverflow :
     /\ idx + k <= MaxId
     /\ Len(freelist.txFreed) + k + 1 <= MaxPending
     /\ (idx..(idx + k)) \cap (SeqSet(freelist.ids) \cup SeqSet(freelist.txFreed)) = {}
     /\ FLAdded(idx, k, FreelistAdd(freelist, [ZeroPage EXCEPT !.Index = idx,
                                                               !.Overflow = k]))

\* Freelist.Release()
FLRelease ==
  /\ freelist' = FreelistRelease(freelist)
  /\ ret' = FLRet("Release", TRUE, Len(freelist.txFreed), 0, <<>>)
  /\ UNCHANGED <<txArena, dirtyPages, unitFixed>>

\* Freelist.Rollback()
FLRollback ==
  /\ freelist' = FreelistRollback(freelist)
  /\ ret' = FLRet("Rollback", TRUE, Len(freelist.txFreed), 0, <<>>)
  /\ UNCHANGED <<txArena, dirtyPages, unitFixed>>

FLWritten(p) ==
  /\ ret' = FLRet("ReadPage", TRUE, p.Count, p.Index,
                  FreelistReadPage(NewFreelist, p).ids)
  /\ UNCHANGED <<freelist, txArena, dirtyPages, unitFixed>>

\* Freelist.WritePage(p) on a newly allocated page, then
\* NewFreelist().ReadPage(p).
FLWriteRead ==
  \E idx \in 1..2 :
     FLWritten(FreelistWritePage(freelist, [ZeroPage EXCEPT !.Index = idx]))

NextFreelist ==
  \/ FLAllocate
  \/ FLAdd
  \/ FLRelease
  \/ FLRollback
  \/ FLWriteRead

SpecFreelist == InitFreelist /\ [][NextFreelist]_vars

\* ---- Claims about the freelist ---------------------------------------------
\* The positions of ids at which n consecutive page ids start.
RunStarts(ids, n) ==
  {i \in 1..(Len(ids) - n + 1) : \A j \in 0..(n - 1) : ids[i + j] = ids[i] + j}

FirstRun(ids, n) == CHOOSE i \in RunStarts(ids, n) : \A j \in RunStarts(ids, n) : i <= j

\* The page ids id, id+1, .., id+n-1.
RunOf(id, n) == id..(id + n - 1)

C14_AllocateThreeLeavesTwo ==
  [][(freelist.ids = <<1, 3, 4, 5, 6, 7>> /\ ret'.op = "Allocate" /\ ret'.n = 3)
       => (ret'.ok /\ ret'.value = 3 /\ freelist'.ids = <<1, 7>>)]_vars

\* C14 amended: Allocate(3) on ids 1,3,4,5,6,7 returns 3 and leaves 1,6,7.
C14_AllocateThreeLeavesThree ==
  [][(freelist.ids = <<1, 3, 4, 5, 6, 7>> /\ ret'.op = "Allocate" /\ ret'.n = 3)
       => (ret'.ok /\ ret'.value = 3 /\ freelist'.ids = <<1, 6, 7>>)]_vars

\* Allocate(3) has returned 3 and left 1,6,7: the ids before were 1,3,4,5,6,7.
C14_Witness ==
  /\ ret.op = "Allocate" /\ ret.ok /\ ret.n = 3 /\ ret.value = 3
  /\ freelist.ids = <<1, 6, 7>>
  /\ freelist.txFreed = <<>>

\* C15: a page id freed by the live transaction is pending, and Allocate never
\* returns a pending id: it takes ids only from ids, freeing a page changes
\* nothing Allocate can return, and Release is what moves pending ids to ids.
C15_FreedNotAllocatedInTx ==
  [][/\ (ret'.op = "Allocate" /\ ret'.ok) =>
          /\ RunOf(ret'.value, ret'.n) \cap SeqSet(freelist.txFreed) = {}
          /\ RunOf(ret'.value, ret'.n) \subseteq SeqSet(freelist.ids)
     /\ ret'.op = "Add" =>
          \A n \in 1..MaxRun :
             /\ FreelistAllocate(freelist', n).ok = FreelistAllocate(freelist, n).ok
             /\ FreelistAllocate(freelist', n).id = FreelistAllocate(freelist, n).id
     /\ ret'.op = "Release" =>
          SeqSet(freelist.txFreed) \subseteq SeqSet(freelist'.ids)]_vars

\* An allocation that succeeded while a smaller page id was pending.
C15_Witness ==
  /\ ret.op = "Allocate" /\ ret.ok
  /\ \E i \in 1..Len(freelist.txFreed) : freelist.txFreed[i] < ret.value

\* C16: Add of a page with overflow k appends exactly the k+1 ids index,
\* index+1, .., index+k to the pending list and leaves ids unchanged; Add of
\* page 0 is fatal and adds nothing.
C16_AddAppendsRun ==
  [][ret'.op = "Add" =>
       IF ret'.value = 0
       THEN ~ret'.ok /\ freelist' = freelist
       ELSE /\ ret'.ok
            /\ freelist'.txFreed =
                 freelist.txFreed \o [i \in 1..(ret'.n + 1) |-> ret'.value + i - 1]
            /\ freelist'.ids = freelist.ids]_vars

\* A page with overflow 1 was freed after another page was already pending.
C16_Witness ==
  /\ ret.op = "Add" /\ ret.ok /\ ret.n = 1
  /\ Len(freelist.txFreed) = 3
  /\ freelist.txFreed[3] = ret.value + 1
  /\ freelist.ids # <<>>

C18_FreelistRoundTrip ==
  [][ret'.op = "ReadPage" => ret'.ids = freelist.ids]_vars

\* Three or more ids, not consecutive ones, came back from the page.
C18_Witness ==
  /\ ret.op = "ReadPage" /\ ret.n >= 3
  /\ ret.ids[3] > ret.ids[1] + 2
  /\ Len(ret.ids) >= 3
  /\ ret.ids = freelist.ids

\* ---- Node on its own -------------------------------------------------------
\* The ascending key lists over KeySet.
NodeKeySeqs == {SortedIds(S) : S \in SUBSET KeySet}

\* The leaf nodes with page 3 and the given parent: any ascending keys, any
\* values.
LeafNodes(parent) ==
  UNION {{[NewNode(parent) EXCEPT !.Index = 3, !.IsLeaf = TRUE,
                                  !.Key = IF ks = <<>> THEN NilKey ELSE ks[1],
                                  !.Keys = ks, !.Values = vs]
            : vs \in [1..Len(ks) -> ValueSet]} : ks \in NodeKeySeqs}

\* The internal nodes with page 3 and the given parent: ascending keys, the
\* children's page ids ascending or descending.
InternalNodes(parent) ==
  {[NewNode(parent) EXCEPT !.Index = 3,
                           !.Key = ks[1],
                           !.Keys = ks,
                           !.Cids = [i \in 1..Len(ks) |->
                                       IF up THEN 3 + ks[i] ELSE 4 + MaxKey - ks[i]]]
     : ks \in NodeKeySeqs \ {<<>>}, up \in BOOLEAN}

\* The parent a non-root node hangs under: one entry, for that node.
ParentOf(n) == [NewNode(0) EXCEPT !.Index = 2, !.Key = n.Key,
                                  !.Keys = <<n.Key>>, !.Cids = <<n.Index>>]

\* What the calls on the node produced: under is the node the test built,
\* orig its contents before Split, list what Split returned, node and read
\* the node written to a page and the node read from that page; key, found
\* and index are the argument and the results of Search on node.
NRet(op, under, orig, split, list, node, read) ==
  [op |-> op, under |-> under, orig |-> orig, split |-> split, list |-> list,
   node |-> node, read |-> read, key |-> NilKey, found |-> FALSE, index |-> 0]

\* A root node, or a node under a parent, in the memory of a transaction.
InitNode ==
  /\ UnitRest
  /\ freelist = NewFreelist
  /\ dirtyPages = <<>>
  /\ txArena \in {<<n>> : n \in LeafNodes(0) \cup InternalNodes(0)}
                   \cup {<<ParentOf(n), n>> : n \in LeafNodes(1) \cup InternalNodes(1)}
  /\ ret = NRet("none", Len(txArena), txArena[Len(txArena)], FALSE, <<>>, 0, NewNode(0))

NodeSplitDone(r) ==
  /\ txArena' = r.arena
  /\ ret' = [ret EXCEPT !.op = "Split", !.split = TRUE, !.list = r.list]
  /\ UNCHANGED <<freelist, dirtyPages, unitFixed>>

\* Node.Split() on the node under test.
NodeSplit ==
  /\ ~ret.split
  /\ NodeSplitDone(Split(txArena, ret.under, <<>>, MaxFuel))

NodeWritten(i, p) ==
  /\ ret' = [ret EXCEPT !.op = "ReadPage", !.node = i,
                        !.read = NodeReadPage(NewNode(0), p)]
  /\ UNCHANGED <<txArena, freelist, dirtyPages, unitFixed>>

\* Node.WritePage(p) of a node on a newly allocated page, then ReadPage(p)
\* into a new node.
NodeWriteRead ==
  \E i \in 1..Len(txArena), idx \in 1..2 :
     NodeWritten(i, NodeWritePage(txArena[i], [ZeroPage EXCEPT !.Index = idx]))

NodeSearched(i, key, r) ==
  /\ ret' = [ret EXCEPT !.op = "Search", !.node = i, !.key = key,
                        !.found = r.found, !.index = r.index]
  /\ UNCHANGED <<txArena, freelist, dirtyPages, unitFixed>>

\* Node.Search(key) on a node.
NodeSearch ==
  \E i \in 1..Len(txArena), key \in KeySet :
     NodeSearched(i, key, Search(txArena[i], key))

NextNode ==
  \/ NodeSplit
  \/ NodeWriteRead
  \/ NodeSearch

SpecNode == InitNode /\ [][NextNode]_vars

\* ---- Claims about nodes ----------------------------------------------------
\* C19: a node written to a page and read from it into a new node is the same
\* node: same kind, same keys in the same order, and for each key the same
\* value (leaf) or child page id (internal).
C19_NodeRoundTrip ==
  [][ret'.op = "ReadPage" =>
       /\ ret'.read.IsLeaf = txArena[ret'.node].IsLeaf
       /\ ret'.read.Keys = txArena[ret'.node].Keys
       /\ ret'.read.Values = txArena[ret'.node].Values
       /\ ret'.read.Cids = txArena[ret'.node].Cids]_vars

\* A leaf with a one-byte and a long value, and an internal node whose
\* children are not in page order, came back from a page.
C19_Witness ==
  /\ ret.op = "ReadPage"
  /\ \/ /\ ret.read.IsLeaf
        /\ Len(ret.read.Values) >= 3
        /\ ret.read.Values[1] # ret.read.Values[2]
     \/ /\ ~ret.read.IsLeaf
        /\ Len(ret.read.Cids) >= 3
        /\ ret.read.Cids[1] > ret.read.Cids[2]

\* The keys, values and children of the nodes list[i..] in order.
RECURSIVE ListKeys(_, _, _)
ListKeys(arena, list, i) ==
  IF i > Len(list) THEN <<>> ELSE arena[list[i]].Keys \o ListKeys(arena, list, i + 1)

RECURSIVE ListValues(_, _, _)
ListValues(arena, list, i) ==
  IF i > Len(list) THEN <<>> ELSE arena[list[i]].Values \o ListValues(arena, list, i + 1)

RECURSIVE ListCids(_, _, _)
ListCids(arena, list, i) ==
  IF i > Len(list) THEN <<>> ELSE arena[list[i]].Cids \o ListCids(arena, list, i + 1)

\* C20: Node.Split returns every node that results, in key order: exactly one
\* node, the original, when the node does not overfill, two or more when it
\* does, and the returned nodes' keys with their values or children, put one
\* after the other, are the original sequence.
C20_SplitReturnsAllNodes ==
  [][ret'.op = "Split" =>
       /\ ~Overfill(ret.orig) => ret'.list = <<ret.under>>
       /\ Overfill(ret.orig) => Len(ret'.list) >= 2
       /\ ListKeys(txArena', ret'.list, 1) = ret.orig.Keys
       /\ ListValues(txArena', ret'.list, 1) = ret.orig.Values
       /\ ListCids(txArena', ret'.list, 1) = ret.orig.Cids]_vars

\* ---- Claims about the tree a Commit builds ---------------------------------
\* The nodes of the writable transaction that hang under node p.
ChildrenOf(p) == {c \in 1..Len(txArena) : txArena[c].Parent = p}

\* Entry i of the internal node P is the entry of the node c.
EntryOf(P, i, c) ==
  /\ txArena[c].Keys # <<>>
  /\ P.Keys[i] = txArena[c].Keys[1]
  /\ P.Cids[i] = txArena[c].Index

C12_InternalNodeEntries ==
  ret.op = "Commit" =>
    \A p \in 1..Len(txArena) :
       ~txArena[p].IsLeaf =>
         /\ \A i, j \in 1..Len(txArena[p].Keys) :
               i < j => /\ txArena[p].Keys[i] < txArena[p].Keys[j]
                        /\ txArena[p].Cids[i] # txArena[p].Cids[j]
         /\ \A i \in 1..Len(txArena[p].Keys) :
               \E c \in ChildrenOf(p) : EntryOf(txArena[p], i, c)
         /\ \A c \in ChildrenOf(p) :
               \E i \in 1..Len(txArena[p].Keys) :
                  /\ EntryOf(txArena[p], i, c)
                  /\ \A j \in 1..Len(txArena[p].Keys) :
                        EntryOf(txArena[p], j, c) => j = i

\* ---- Open on its own -------------------------------------------------------
\* The variables Open does not touch.
openFixed == <<fileLog, wtx, lastTxID, txs, txId, finished, txState, txMeta,
               txRoot, txArena, txNodes, dirtyPages, txAlloc, readers,
               committed, pending, commits, crashed>>

\* No file at the path.
NoFile == [i \in {} |-> ZeroPage]

\* A store of 3 + k pages: the k pages after the root are empty leaves, S of
\* them are free, and the meta page carries the magic mg.
FileOf(k, S, mg) ==
  [i \in 0..(2 + k) |->
     IF i = 0
     THEN [initFile[0] EXCEPT !.Meta.magic = mg, !.Meta.totalPages = 3 + k]
     ELSE IF i = 1
     THEN FreelistWritePage([ids |-> SortedIds(S), txFreed |-> <<>>], initFile[1])
     ELSE [initFile[2] EXCEPT !.Index = i]]

\* The files Open may find: sound stores, and stores whose meta page has lost
\* the magic.
ExistingFiles ==
  UNION {{FileOf(k, S, mg) : S \in SUBSET (3..(2 + k)),
                             mg \in {Magic, Magic + 1, 1, 0}} : k \in 0..MaxExtra}

\* What Open returned.
OpenRet(ok, created) == [op |-> "Open", ok |-> ok, created |-> created]

InitOpen ==
  /\ disk \in {NoFile} \cup ExistingFiles
  /\ mmapSize = 0
  /\ freelist = NewFreelist
  /\ ret = [op |-> "none", ok |-> FALSE, created |-> FALSE]
  /\ fileLog = <<>>
  /\ wtx = 0
  /\ lastTxID = 0
  /\ txs = <<>>
  /\ txId = 0
  /\ finished = {}
  /\ txState = "none"
  /\ txMeta = NoMeta
  /\ txRoot = 0
  /\ txArena = <<>>
  /\ txNodes = <<>>
  /\ dirtyPages = <<>>
  /\ txAlloc = {}
  /\ readers = <<>>
  /\ committed = EmptyMap
  /\ pending = EmptyMap
  /\ commits = 0
  /\ crashed = FALSE

\* The size Open maps for the file d, in KiB.
OpenMapKiB(d) ==
  roundMmapSize(IF Cardinality(DOMAIN d) * (PageSize \div 1024) > MinMapKiB
                THEN Cardinality(DOMAIN d) * (PageSize \div 1024) ELSE MinMapKiB)

\* Open from the read of the file d on: the magic test, mmap, the freelist.
Opened(d, created, mmapOk) ==
  /\ disk' = d
  /\ IF MagicOk(d[0].Meta) /\ mmapOk
     THEN /\ ret' = OpenRet(TRUE, created)
          /\ mmapSize' = OpenMapKiB(d)
          /\ freelist' = FreelistReadPage(NewFreelist, d[d[0].Meta.freelistPage])
     ELSE /\ ret' = OpenRet(FALSE, created)
          /\ UNCHANGED <<mmapSize, freelist>>
  /\ UNCHANGED openFixed

\* Open(path): createOk and mmapOk are whether os.Create and the mmap system
\* call succeed.
Open ==
  /\ ret.op = "none"
  /\ \E createOk, mmapOk \in BOOLEAN :
        IF DOMAIN disk = {} /\ ~createOk
        THEN /\ ret' = OpenRet(FALSE, FALSE)
             /\ UNCHANGED <<disk, mmapSize, freelist, openFixed>>
        ELSE Opened(IF DOMAIN disk = {} THEN initFile ELSE disk,
                    DOMAIN disk = {}, mmapOk)

NextOpen == Open

SpecOpen == InitOpen /\ [][NextOpen]_vars

\* ---- Transactions on a store whose root is an internal node ----------------
\* The shapes of the stores: two leaves with keys k0 and k1 and the value v
\* for every key, under a root with the separator keys s0 and s1.  Each
\* separator is at most the first key of its child and greater than the last
\* key of the child before it.
TreeShapes ==
  {t \in [k0 : {<<1, 2>>}, k1 : {<<4, 5>>}, s0 : {1}, s1 : {3, 4}, v : ValueSet] :
     /\ t.s0 <= t.k0[1]
     /\ t.k0[Len(t.k0)] < t.s1
     /\ t.s1 <= t.k1[1]}

TreeLeaf(ks, v) ==
  [NewNode(0) EXCEPT !.IsLeaf = TRUE, !.Keys = ks, !.Values = [i \in 1..Len(ks) |-> v]]

\* The file of the store of shape t: meta, freelist, root on page 2 and the
\* leaves on pages 3 and 4.
TreeFile(t) ==
  [i \in 0..4 |->
     IF i = 0 THEN [initFile[0] EXCEPT !.Meta.totalPages = 5]
     ELSE IF i = 1 THEN initFile[1]
     ELSE IF i = 2
     THEN NodeWritePage([NewNode(0) EXCEPT !.Keys = <<t.s0, t.s1>>, !.Cids = <<3, 4>>],
                        [ZeroPage EXCEPT !.Index = 2])
     ELSE IF i = 3 THEN NodeWritePage(TreeLeaf(t.k0, t.v), [ZeroPage EXCEPT !.Index = 3])
     ELSE NodeWritePage(TreeLeaf(t.k1, t.v), [ZeroPage EXCEPT !.Index = 4])]

\* The key -> value map the store of shape t holds.
TreeMap(t) ==
  [k \in KeySet |-> IF k \in SeqSet(t.k0) \cup SeqSet(t.k1) THEN t.v ELSE NoValue]

\* Open has returned on the file of a store whose root is an internal node.
InitTreeOf(t) ==
  /\ disk = TreeFile(t)
  /\ fileLog = <<>>
  /\ mmapSize = roundMmapSize(MinMapKiB)
  /\ freelist = FreelistReadPage(NewFreelist, TreeFile(t)[1])
  /\ wtx = 0
  /\ lastTxID = 0
  /\ txs = <<>>
  /\ txId = 0
  /\ finished = {}
  /\ txState = "none"
  /\ txMeta = NoMeta
  /\ txRoot = 0
  /\ txArena = <<>>
  /\ txNodes = <<>>
  /\ dirtyPages = <<>>
  /\ txAlloc = {}
  /\ readers = <<>>
  /\ ret = NoRet
  /\ committed = TreeMap(t)
  /\ pending = TreeMap(t)
  /\ commits = 0
  /\ crashed = FALSE

InitTree == \E t \in TreeShapes : InitTreeOf(t)

SpecTree == InitTree /\ [][Next]_vars

\* ---- Claims C21 .. C30 -----------------------------------------------------
\* C21: on a node with strictly ascending keys Search(key) returns found
\* exactly when the key is present, with the index of that key; otherwise the
\* index is where the key would be inserted: the first index whose key is
\* greater, the number of keys when all keys are smaller.
C21_SearchFindsOrInsertPoint ==
  [][ret'.op = "Search" =>
       /\ ret'.found = (ret'.key \in SeqSet(txArena[ret'.node].Keys))
       /\ ret'.index =
            Cardinality({h \in 1..Len(txArena[ret'.node].Keys) :
                           txArena[ret'.node].Keys[h] < ret'.key})
       /\ ret'.found => txArena[ret'.node].Keys[ret'.index + 1] = ret'.key
       /\ (~ret'.found /\ ret'.index < Len(txArena[ret'.node].Keys))
             => txArena[ret'.node].Keys[ret'.index + 1] > ret'.key]_vars

\* A search for an absent key that lies between two keys of the node.
C21_Witness ==
  /\ ret.op = "Search" /\ ~ret.found
  /\ ret.index >= 1
  /\ ret.index < Len(txArena[ret.node].Keys)

\* C22: across commits and rollbacks the committed meta's totalPages never
\* decreases, and the meta a writable Tx works on never counts fewer pages
\* than the committed one.
C22_TotalPagesNeverDecrease ==
  [][/\ DBMeta'.totalPages >= DBMeta.totalPages
     /\ txState' # "none" => txMeta'.totalPages >= DBMeta'.totalPages]_vars

\* A Commit that allocated pages has returned true.
C22_Witness ==
  /\ commits >= 1
  /\ ret.op = "Commit" /\ ret.ok
  /\ txAlloc # {}
  /\ txMeta.totalPages > DBMeta.totalPages

C24_BadMagicFails ==
  [][(ret'.op = "Open" /\ DOMAIN disk # {} /\ disk[0].Meta.magic # Magic) =>
       /\ ~ret'.ok
       /\ disk' = disk
       /\ mmapSize' = 0
       /\ freelist' = NewFreelist]_vars

\* Open has failed on a file of more than three pages with free pages in its
\* freelist and a meta page without the magic.
C24_Witness ==
  /\ ret.op = "Open" /\ ~ret.ok /\ ~ret.created
  /\ DOMAIN disk # {}
  /\ disk[0].Meta.magic = Magic + 1
  /\ disk[1].Count >= 1
  /\ mmapSize = 0

\* C25: in a store whose root is an internal node, Get(K) in a read-only Tx
\* begun on that store returns the value of every stored key K, and for a key
\* that is not stored it returns not-found without a fatal error, also for
\* keys greater than every separator and keys between two separators.
C25_GetDescendsToLeaf ==
  [][ret'.op = "GetR" =>
       \E r \in 1..Len(readers) :
          (readers[r].born = 0 /\ ~readers[r].root.IsLeaf) =>
             /\ ~crashed'
             /\ ret'.found = (readers[r].base[ret'.key] # NoValue)
             /\ ret'.value = readers[r].base[ret'.key]]_vars

\* C26: on a store that satisfies the tree invariants, every Commit of a
\* writable transaction that made valid Set and Remove calls completes: it
\* returns, and no fatal check (invalid child index, parent without a child,
\* access of the wrong kind of node, free of page 0) stops it.
C26_CommitCompletes == [][ret'.op = "Commit" => ~crashed']_vars

\* C27: Commit always terminates, also after a root split: when the spill
\* pass has split the root and given the old root a parent, the walk of
\* Root() finishes and the Commit call returns (true or false).
C27_CommitReturnsAfterRootSplit ==
  [][(ret'.op = "Commit" /\ txArena'[txRoot'].Spilled /\ txArena'[txRoot'].Parent # 0)
       => txState' \in {"committed", "failed"}]_vars

\* ---- the merge pass on a tree of three levels -----------------------------
\* The keys of the calls made on the three-level store.
MergeKeySet == 1..MaxMergeKey

\* The file of a store of three levels whose leaves hold values v: meta,
\* freelist, the root on page 2, the internal nodes on pages 3 and 4 and the
\* leaves {1,2}, {3,4}, {5,6}, {7,8} on pages 5..8.
MergeFile(v) ==
  [i \in 0..8 |->
     IF i = 0 THEN [initFile[0] EXCEPT !.Meta.totalPages = 9]
     ELSE IF i = 1 THEN initFile[1]
     ELSE IF i = 2
     THEN NodeWritePage([NewNode(0) EXCEPT !.Keys = <<1, 5>>, !.Cids = <<3, 4>>],
                        [ZeroPage EXCEPT !.Index = 2])
     ELSE IF i = 3
     THEN NodeWritePage([NewNode(0) EXCEPT !.Keys = <<1, 3>>, !.Cids = <<5, 6>>],
                        [ZeroPage EXCEPT !.Index = 3])
     ELSE IF i = 4
     THEN NodeWritePage([NewNode(0) EXCEPT !.Keys = <<5, 7>>, !.Cids = <<7, 8>>],
                        [ZeroPage EXCEPT !.Index = 4])
     ELSE NodeWritePage(TreeLeaf(<<2 * i - 9, 2 * i - 8>>, v), [ZeroPage EXCEPT !.Index = i])]

\* Open has returned on the file of a store of three levels.
InitMerge ==
  /\ disk \in {MergeFile(v) : v \in ValueSet}
  /\ fileLog = <<>>
  /\ mmapSize = roundMmapSize(MinMapKiB)
  /\ freelist = FreelistReadPage(NewFreelist, initFile[1])
  /\ wtx = 0
  /\ lastTxID = 0
  /\ txs = <<>>
  /\ txId = 0
  /\ finished = {}
  /\ txState = "none"
  /\ txMeta = NoMeta
  /\ txRoot = 0
  /\ txArena = <<>>
  /\ txNodes = <<>>
  /\ dirtyPages = <<>>
  /\ txAlloc = {}
  /\ readers = <<>>
  /\ ret = NoRet
  /\ committed = EmptyMap
  /\ pending = EmptyMap
  /\ commits = 0
  /\ crashed = FALSE

mergeFixed == <<disk, fileLog, mmapSize, wtx, lastTxID, txs, txId, finished, txMeta, txRoot,
               txAlloc, readers, committed, pending, commits>>

\* Tx.Get of the writable Tx with a key of the three-level store.
MergeGet ==
  /\ ~crashed
  /\ txState = "live"
  /\ \E key \in MergeKeySet :
       LET w == Walk(txArena, txNodes, dirtyPages, txRoot, key, MaxFuel)
           leaf == w.arena[w.leaf]
           s == Search(leaf, key)
       IN IF w.panic
          THEN /\ crashed' = TRUE
               /\ ret' = RetKey("GetW", FALSE, FALSE, NoValue, key)
               /\ UNCHANGED <<txArena, txNodes>>
          ELSE /\ crashed' = FALSE
               /\ txArena' = w.arena
               /\ txNodes' = w.nodes
               /\ ret' = IF s.found
                         THEN RetKey("GetW", TRUE, TRUE, leaf.Values[s.index + 1], key)
                         ELSE RetKey("GetW", TRUE, FALSE, NoValue, key)
  /\ UNCHANGED <<mergeFixed, freelist, txState, dirtyPages>>

\* Tx.Remove with a key of the three-level store.
MergeRemove ==
  /\ ~crashed
  /\ txState = "live"
  /\ \E key \in MergeKeySet :
       LET w == Walk(txArena, txNodes, dirtyPages, txRoot, key, MaxFuel)
           leaf == w.arena[w.leaf]
           s == Search(leaf, key)
       IN IF w.panic
          THEN /\ crashed' = TRUE
               /\ ret' = RetKey("Remove", FALSE, FALSE, NoValue, key)
               /\ UNCHANGED <<txArena, txNodes>>
          ELSE /\ crashed' = FALSE
               /\ txNodes' = w.nodes
               /\ txArena' = IF s.found
                             THEN [w.arena EXCEPT ![w.leaf] =
                                     RemoveKeyValueAt([leaf EXCEPT !.Balanced = FALSE], s.index)]
                             ELSE w.arena
               /\ ret' = RetKey("Remove", TRUE, FALSE, NoValue, key)
  /\ UNCHANGED <<mergeFixed, freelist, txState, dirtyPages>>

\* The state the merge loop of Commit leaves when it ends as c.
MergePassDone(c) ==
  /\ txArena' = c.arena
  /\ txNodes' = c.nodes
  /\ dirtyPages' = c.dirty
  /\ freelist' = c.fl
  /\ crashed' = c.panic
  /\ txState' = IF c.panic THEN "panic" ELSE "merged"
  /\ ret' = Ret("merge", ~c.panic, FALSE, NoValue)

\* The merge loop when the range also yields the entries that tx.merge added
\* to the map while it ran (late), or skips them: c is the state after the
\* entries the map held at the start.
MergeLate(c, late) ==
  IF late THEN MergeAll(c, SortedIds((DOMAIN c.nodes) \ (DOMAIN txNodes)), 1) ELSE c

\* The merge pass of Commit: "for _, n := range tx.nodes { tx.merge(n) }".
MergePass ==
  /\ ~crashed
  /\ txState = "live"
  /\ \E order \in Orders(DOMAIN txNodes), late \in BOOLEAN :
       MergePassDone(MergeLate(MergeAll(CommitState, order, 1), late))
  /\ UNCHANGED mergeFixed

NextMerge == NewWritableOk \/ MergeGet \/ MergeRemove \/ MergePass

SpecMerge == InitMerge /\ [][NextMerge]_vars

\* The node of page id as the Tx sees it: the node of its cache, else the
\* page decoded.
NodeOfPage(arena, nodes, dirty, id) ==
  IF id \in DOMAIN nodes THEN arena[nodes[id]]
  ELSE NodeReadPage(NewNode(0), TxgetPage(dirty, id))

\* The (key, value) pairs of the leaves below node n, from left to right.
RECURSIVE LeafPairs(_, _, _, _, _)
RECURSIVE ChildPairs(_, _, _, _, _, _)
LeafPairs(arena, nodes, dirty, n, fuel) ==
  IF n.IsLeaf THEN [i \in 1..Len(n.Keys) |-> <<n.Keys[i], n.Values[i]>>]
  ELSE IF fuel = 0 THEN <<>>
  ELSE ChildPairs(arena, nodes, dirty, n.Cids, 1, fuel - 1)

ChildPairs(arena, nodes, dirty, cids, i, fuel) ==
  IF i > Len(cids) THEN <<>>
  ELSE LeafPairs(arena, nodes, dirty, NodeOfPage(arena, nodes, dirty, cids[i]), fuel)
       \o ChildPairs(arena, nodes, dirty, cids, i + 1, fuel)

\* The pairs stored in the leaves reachable from the root of the writable Tx.
TxPairs == LeafPairs(txArena, txNodes, dirtyPages, txArena[txRoot], MaxFuel)

C29_CommittedNodesSpilled ==
  (ret.op = "Commit" /\ ret.ok) =>
     \A id \in DOMAIN txNodes :
        /\ txArena[txNodes[id]].Spilled
        /\ txArena[txNodes[id]].Index \in txAlloc

\* The nodes a Split of the node under test left in arena: that node and the
\* nodes splitTwo created under the same parent.
SplitSiblings(arena, under) ==
  {i \in 1..Len(arena) : i = under \/ (i > under /\ arena[i].Parent = arena[under].Parent)}

\* C30: every sibling produced by a split, the left node and each new right
\* node, has at least MIN_KEYS keys and a size of at least
\* UNDERFILL_THRESHOLD: it is not underfilled.
C30_SplitSiblingsNotUnderfilled ==
  [][(ret'.op = "Split" /\ Overfill(ret.orig)) =>
       \A i \in SplitSiblings(txArena', ret.under) :
          /\ KeyCount(txArena'[i]) >= minKeys
          /\ Size(txArena'[i]) >= underfillThreshold]_vars

\* ---- Split on nodes of chosen sizes ---------------------------------------
\* The sizes of the nodes Split is called on: around PageSize, and twice it.
SplitSizes == {PageSize - 1, PageSize, PageSize + 1, 2 * PageSize}

\* The size of a leaf of k one-byte keys with one-byte values.
SmallLeafSize(k) == HeaderSize + k * (PairInfoSize + 2)

\* The values of a leaf of k one-byte keys and size total: one byte each,
\* but for positions p and q, which share the rest (p = q takes all of it).
SizedValues(k, p, q, total) ==
  LET rest == total - SmallLeafSize(k) + (IF p = q THEN 1 ELSE 2)
  IN [j \in 1..k |->
        IF j = p /\ p = q THEN SizedValue(rest)
        ELSE IF j = p THEN SizedValue(rest \div 2)
        ELSE IF j = q THEN SizedValue(rest - (rest \div 2))
        ELSE 1]

\* The leaves with page 3 and the given parent, keys 1..k and a size of
\* SplitSizes.
SizedLeaves(parent) ==
  UNION {{[NewNode(parent) EXCEPT !.Index = 3, !.IsLeaf = TRUE, !.Key = 1,
                                  !.Keys = [j \in 1..k |-> j],
                                  !.Values = SizedValues(k, pq[1], pq[2], total)]
            : pq \in {x \in (1..k) \X (1..k) : x[1] <= x[2]}, total \in SplitSizes}
         : k \in 1..MaxKey}

\* The internal nodes with page 3 and the given parent whose keys are long
\* or one byte long.
SizedInternals(parent) ==
  UNION {{[NewNode(parent) EXCEPT !.Index = 3,
                                  !.Key = SizedKey(1, long[1]),
                                  !.Keys = [j \in 1..k |-> SizedKey(j, long[j])],
                                  !.Cids = [j \in 1..k |-> 3 + j]]
            : long \in [1..k -> BOOLEAN]} : k \in 1..MaxKey}

\* A root node, or a node under a parent, in the memory of a transaction.
InitSplit ==
  /\ UnitRest
  /\ freelist = NewFreelist
  /\ dirtyPages = <<>>
  /\ txArena \in {<<n>> : n \in SizedLeaves(0) \cup SizedInternals(0)}
                   \cup {<<ParentOf(n), n>> : n \in SizedLeaves(1) \cup SizedInternals(1)}
  /\ ret = NRet("none", Len(txArena), txArena[Len(txArena)], FALSE, <<>>, 0, NewNode(0))

NextSplit == NodeSplit

SpecSplit == InitSplit /\ [][NextSplit]_vars

\* ---- Claims C31 .. C39 ----------------------------------------------------
\* The serialized size of the header and of entries 0..i of node n.
AccSize(n, i) ==
  HeaderSize + (i + 1) * PairInfoSize + SumLen(Prefix(n.Keys, i + 1), 1, TRUE)
    + (IF n.IsLeaf THEN SumLen(Prefix(n.Values, i + 1), 1, FALSE) ELSE 0)

\* The indexes of n that qualify as split point.
SplitPoints(n) ==
  {i \in 0..(Len(n.Keys) - 1) : i >= minKeys /\ AccSize(n, i) >= splitThreshold}

\* The arena index of the node the first splitTwo of the node under test
\* created (behind the new parent, when the node was a root).
FirstRight(arena, orig) == Len(arena) + (IF IsRoot(orig) THEN 2 ELSE 1)

\* C31: splitTwo cuts an overfilled node at the first index i >= MIN_KEYS
\* whose accumulated size, header and entries 0..i, is >= SPLIT_THRESHOLD:
\* the left node keeps entries [0, i) and the new right node holds [i, end),
\* keys with values in a leaf and keys with children in an internal node.
C31_SplitPoint ==
  [][(ret'.op = "Split" /\ Overfill(ret.orig)) =>
       /\ SplitPoints(ret.orig) # {}
       /\ \A i \in SplitPoints(ret.orig) :
            (\A j \in SplitPoints(ret.orig) : i <= j) =>
               /\ txArena'[ret.under].Keys = Prefix(ret.orig.Keys, i)
               /\ txArena'[FirstRight(txArena, ret.orig)].Keys = Suffix(ret.orig.Keys, i)
               /\ txArena'[FirstRight(txArena, ret.orig)].IsLeaf = ret.orig.IsLeaf
               /\ IF ret.orig.IsLeaf
                  THEN /\ txArena'[ret.under].Values = Prefix(ret.orig.Values, i)
                       /\ txArena'[FirstRight(txArena, ret.orig)].Values
                            = Suffix(ret.orig.Values, i)
                  ELSE /\ txArena'[ret.under].Cids = Prefix(ret.orig.Cids, i)
                       /\ txArena'[FirstRight(txArena, ret.orig)].Cids
                            = Suffix(ret.orig.Cids, i)]_vars

\* Split has cut an overfilled internal node, and an overfilled leaf behind
\* its third entry.
C31_Witness ==
  /\ ret.op = "Split"
  /\ Overfill(ret.orig)
  /\ \/ ~ret.orig.IsLeaf /\ Len(txArena[ret.under].Cids) = 2
     \/ ret.orig.IsLeaf /\ Len(txArena[ret.under].Values) = 3

\* C32: a leaf of serialized size PAGE_SIZE + 1 with more than MAX_KEYS keys
\* splits into exactly two children, and the left child's serialized size is
\* at least SPLIT_THRESHOLD.
C32_SplitAtPageSizePlusOne ==
  [][(ret'.op = "Split" /\ ret.orig.IsLeaf /\ Size(ret.orig) = PageSize + 1
        /\ KeyCount(ret.orig) > maxKeys) =>
       /\ Cardinality(SplitSiblings(txArena', ret.under)) = 2
       /\ Size(txArena'[ret.under]) >= splitThreshold]_vars

\* C33: a node is split only when it has more than MAX_KEYS keys and a
\* serialized size above PAGE_SIZE: Split leaves every other node as it is
\* and creates no node, in particular for a leaf of size exactly PAGE_SIZE
\* and for a node of at most MAX_KEYS keys of any size.
C33_SplitOnlyWhenOverfilled ==
  [][ret'.op = "Split" =>
       \/ KeyCount(ret.orig) > maxKeys /\ Size(ret.orig) > PageSize
       \/ txArena' = txArena /\ txArena'[ret.under] = ret.orig]_vars

\* Split has been called on a leaf of more than MAX_KEYS keys whose size is
\* exactly PAGE_SIZE, and has left it whole.
C33_Witness ==
  /\ ret.op = "Split"
  /\ ret.orig.IsLeaf
  /\ KeyCount(ret.orig) > maxKeys
  /\ Size(ret.orig) = PageSize
  /\ txArena[ret.under] = ret.orig
  /\ Len(txArena) = ret.under

ReopenedFreelist == FreelistReadPage(NewFreelist, DiskPage(disk[0].Meta.freelistPage))

\* C35: after a Commit that returned true, the freelist a reopen of the file
\* loads contains every page the transaction superseded, the previous
\* freelist page among them, and the page accounting holds for the reopened
\* store: the pages reachable from the root and the free ids are disjoint and,
\* with the meta page and the freelist page, are exactly 0 .. totalPages - 1.
C35_ReopenedFreelistComplete ==
  txState = "committed" =>
    /\ SeqSet(freelist.txFreed) \subseteq SeqSet(ReopenedFreelist.ids)
    /\ ReachFrom(disk, disk[0].Meta.rootPage, MaxFuel) \cap SeqSet(ReopenedFreelist.ids) = {}
    /\ ReachFrom(disk, disk[0].Meta.rootPage, MaxFuel) \cup SeqSet(ReopenedFreelist.ids)
         \cup {0, disk[0].Meta.freelistPage} = 0..(disk[0].Meta.totalPages - 1)

\* C36: a rollback leaves the ids of the freelist as they were at the start
\* of the transaction: the ids the transaction took out of them through
\* Allocate are put back, so the run an Allocate of the transaction took just
\* before the Rollback is in ids again after it.
C36_RollbackRestoresSlots ==
  [][(ret.op = "Allocate" /\ ret.ok /\ ret'.op = "Rollback")
       => RunOf(ret.value, ret.n) \subseteq SeqSet(freelist'.ids)]_vars

\* ---- Commit of a root leaf of chosen size -------------------------------------
\* The leaves of five keys that split behind their second entry and whose
\* first two entries make a left node of size total.
LeftSizedValues(total) ==
  LET rest == total - HeaderSize - 2 * (PairInfoSize + 1)
  IN <<SizedValue(rest \div 2), SizedValue(rest - (rest \div 2)), 1, 1, 1>>

\* The root leaf a writable transaction on a new store holds after its Set
\* calls: the leaves of SizedLeaves, and those whose left half after the
\* split has a size around PageSize.
SpillLeaves ==
  {[n EXCEPT !.Index = 2, !.Key = NilKey] : n \in SizedLeaves(0)}
    \cup {[NewNode(0) EXCEPT !.Index = 2, !.IsLeaf = TRUE,
                             !.Keys = <<1, 2, 3, 4, 5>>,
                             !.Values = LeftSizedValues(total)]
            : total \in SplitSizes}

\* A writable transaction on a new store whose Set calls have filled the
\* root leaf.
InitSpill ==
  /\ disk = initFile
  /\ fileLog = <<>>
  /\ mmapSize = roundMmapSize(MinMapKiB)
  /\ freelist = FreelistReadPage(NewFreelist, initFile[1])
  /\ wtx = 1
  /\ lastTxID = 1
  /\ txs = <<[id |-> 1, writable |-> TRUE]>>
  /\ txId = 1
  /\ finished = {}
  /\ txState = "live"
  /\ txMeta = MetaCopy(initFile[0].Meta)
  /\ txRoot = 1
  /\ txArena \in {<<n>> : n \in SpillLeaves}
  /\ txNodes = (2 :> 1)
  /\ dirtyPages = <<>>
  /\ txAlloc = {}
  /\ readers = <<>>
  /\ ret = RetKey("Set", TRUE, FALSE, NoValue, 1)
  /\ committed = EmptyMap
  /\ pending = EmptyMap
  /\ commits = 0
  /\ crashed = FALSE

NextSpill == Commit \/ Rollback

SpecSpill == InitSpill /\ [][NextSpill]_vars

\* The number of pages of PageSize bytes that hold size bytes.
PagesFor(size) == (size + PageSize - 1) \div PageSize

\* C37: spilling a node of serialized size s allocates exactly
\* ceil(s / PAGE_SIZE) contiguous pages: every node a Commit has spilled lies
\* on a page run of that length, so a node of size exactly PAGE_SIZE has one
\* page (overflow = 0).
C37_SpillAllocatesCeilPages ==
  [][ret'.op = "Commit" =>
       \A i \in 1..Len(txArena') :
          txArena'[i].Spilled =>
             /\ txArena'[i].Index \in DOMAIN dirtyPages'
             /\ dirtyPages'[txArena'[i].Index].Overflow + 1 = PagesFor(Size(txArena'[i]))]_vars

\* The sizes of the ladder, in KiB: MinMapBytes doubled up to 1 GiB, then the
\* multiples of 1 GiB up to 16 GiB.
OnLadder(size) ==
  \/ \E i \in 0..13 : size = MinMapKiB * Pow2(i)
  \/ \E k \in 1..(MaxMapKiB \div MmapStepKiB) : size = k * MmapStepKiB

\* C38: the mmap size is 128 KiB after Open, and a value of the ladder.
C38_MmapInitialSize ==
  (ret.op = "Open" /\ ret.ok) => (mmapSize = MinMapKiB /\ OnLadder(mmapSize))

\* C39: Get, in a read-only or in the writable transaction, never allocates
\* and never writes: it leaves the freelist (ids and pending), the
\* transaction's meta and dirty pages, DB.meta, the mmap and every page of
\* the file as they are, whether it returns or panics.
C39_GetChangesNothing ==
  [][ret'.op \in {"GetW", "GetR"} =>
       /\ freelist' = freelist
       /\ txMeta' = txMeta
       /\ dirtyPages' = dirtyPages
       /\ txAlloc' = txAlloc
       /\ disk' = disk
       /\ fileLog' = fileLog
       /\ mmapSize' = mmapSize]_vars

\* A Get of the writable transaction has walked from the internal root to a
\* leaf it decoded from its page, and found the key.
C39_Witness ==
  /\ ret.op = "GetW"
  /\ ret.found
  /\ ~txArena[txRoot].IsLeaf
  /\ Len(txArena) >= 2

====
